---- MODULE Spec2Model ----
(***************************************************************************)
(* Inbound path of liblnetconfig_netlink.c: the libyaml read handler that  *)
(* turns netlink key tables and value batches into YAML text.              *)
(*                                                                         *)
(* Text is a sequence of one-character strings; the reader's buffer is a   *)
(* function from byte offsets to characters, written through the offset    *)
(* pos = data->buffer - buffer.  Pointers are node ids (0 is NULL); an     *)
(* optional attribute is <<>> when absent and <<v>> when present.          *)
(***************************************************************************)
EXTENDS Integers, Sequences, FiniteSets, TLC

\* ------------------------------------------------------------------ bounds
MaxMsgs == 2
BufSize == 144

\* ------------------------------------------------ constants of the program
NLA_U16 == 2
NLA_U32 == 3
NLA_U64 == 4
NLA_STRING == 5
NLA_NESTED == 8
NLA_NUL_STRING == 10
NLA_S16 == 13
NLA_S32 == 14
NLA_S64 == 15

LNKF_FLOW == 1
LNKF_SEQUENCE == 2
LNKF_MAPPING == 4

NL_OK == 0
NL_SKIP == 1
NL_STOP == 2

NLE_INTR == 2
NLE_NOMEM == 5
NLE_INVAL == 7
NLE_BAD_SOCK == 3

YAML_NO_ERROR == 0
YAML_READER_ERROR == 2

EINVAL == 22
ENOMEM == 12

\* -------------------------------------------------------------------- text
NUL == "\\0"
FILL == "?"

Digits == <<"0", "1", "2", "3", "4", "5", "6", "7", "8", "9">>

RECURSIVE Dec(_)
Dec(n) == IF n < 10 THEN <<Digits[n + 1]>>
          ELSE Dec(n \div 10) \o <<Digits[(n % 10) + 1]>>

\* "%d" and friends: canonical base 10, '-' for negative values
FmtSigned(v) == IF v < 0 THEN <<"-">> \o Dec(0 - v) ELSE Dec(v)

\* a "%*s" that pads nothing
NoSpaces(n) == <<>>

\* "%*s" with an empty string: n spaces
Spaces(n) == [k \in 1..n |-> " "]

\* x & bit  and  x & ~bit, for a single-bit mask
HasBit(x, bit) == (x \div bit) % 2 = 1
ClearBit(x, bit) == IF HasBit(x, bit) THEN x - bit ELSE x

Has(o) == Len(o) > 0
Val(o) == o[1]

T_net == <<"n", "e", "t">>
T_mtu == <<"m", "t", "u">>
T_nets == <<"n", "e", "t", "s">>
T_nid == <<"n", "i", "d">>
T_status == <<"s", "t", "a", "t", "u", "s">>
T_refcount == <<"r", "e", "f", "c", "o", "u", "n", "t">>
T_tcp1 == <<"t", "c", "p", "1">>
T_tcp2 == <<"t", "c", "p", "2">>
T_up == <<"u", "p">>
T_down == <<"d", "o", "w", "n">>
T_lo == <<"l", "o">>

\* ------------------------------------------------------------- schema tree
\* struct ln_key_props as calloc leaves it
ZeroKey == [lkp_values |-> <<>>, lkp_key_format |-> 0, lkp_data_type |-> 0]

\* calloc(1, len) of a struct yaml_nl_node holding cnt key slots: an empty
\* children list, a self-linked list head, lkl_maxattr = cnt
NewNode(cnt) ==
    [lkl_maxattr |-> cnt,
     lkl_list |-> [i \in 0..(cnt - 1) |-> ZeroKey],
     children |-> <<>>,
     live |-> TRUE]

\* malloc: the lowest address not in use
FreshSid(st) == CHOOSE n \in 1..(Cardinality(st.strs) + 1) : n \notin st.strs

\* nla_strdup: a fresh heap string holding text, and the pointer to it
StrDup(st, text) == [st EXCEPT !.strs = @ \cup {FreshSid(st)}]

NewStr(st, text) == <<[sid |-> FreshSid(st), text |-> text]>>

\* free() of a heap string; a second free of the same string is recorded
FreeStr(st, v) ==
    IF v.sid \in st.strs
    THEN [st EXCEPT !.strs = @ \ {v.sid}]
    ELSE [st EXCEPT !.dfree = TRUE]

\* free() of a schema node
FreeNode(st, id) ==
    IF st.nodes[id].live
    THEN [st EXCEPT !.nodes[id].live = FALSE]
    ELSE [st EXCEPT !.dfree = TRUE]

\* nl_list_del(&node->list): unlink id from whichever children list holds it
ListDel(st, id) ==
    [st EXCEPT !.nodes = [n \in DOMAIN st.nodes |->
        [st.nodes[n] EXCEPT !.children = SelectSeq(@, LAMBDA c : c # id)]]]

\* the allocation of a level's node in yaml_parse_key_list
AllocNode(st, parent, cnt) ==
    LET id == Len(st.nodes) + 1
        s1 == [st EXCEPT !.nodes = Append(@, NewNode(cnt)),
                         !.root = IF @ = 0 THEN id ELSE @,
                         !.cur = IF @ = 0 THEN id ELSE @]
    IN  IF parent # 0
        THEN [s1 EXCEPT !.nodes[parent].children = Append(@, id)]
        ELSE s1

\* the stores of one key record into slot index of node; the node was
\* allocated with lkl_maxattr slots and a store behind them is recorded in
\* oob
SetKey(st, node, index, rec) ==
    IF index >= st.nodes[node].lkl_maxattr THEN [st EXCEPT !.oob = TRUE]
    ELSE
    LET s1 == IF Has(rec.key_format)
              THEN [st EXCEPT !.nodes[node].lkl_list[index].lkp_key_format =
                                  Val(rec.key_format)]
              ELSE st
        s2 == IF Has(rec.nla_type)
              THEN [s1 EXCEPT !.nodes[node].lkl_list[index].lkp_data_type =
                                  Val(rec.nla_type)]
              ELSE s1
    IN  IF Has(rec.value)
        THEN [StrDup(s2, Val(rec.value)) EXCEPT
                 !.nodes[node].lkl_list[index].lkp_values =
                     NewStr(s2, Val(rec.value))]
        ELSE s2

\* a variant that accepts a record without an index
StopsWithoutNode(nd, index) == nd = 0

\* lines 411-412: no node yet, or index 0
StopsIntake(nd, index) == nd = 0 \/ index = 0

\* yaml_parse_key_list: the loop over the key records of one level, from
\* record k on; node is the level's node once allocated (0 before)
RECURSIVE KeyLoop(_, _, _, _, _)
KeyLoop(st, parent, node, list, k) ==
    IF k > Len(list) THEN [st |-> st, rc |-> NL_OK]
    ELSE
    LET rec == list[k] IN
    IF rec.bad THEN [st |-> st, rc |-> NL_OK]
    ELSE
    LET alloc == Has(rec.list_size) /\ node = 0
        s1 == IF alloc THEN AllocNode(st, parent, Val(rec.list_size) + 1)
              ELSE st
        nd == IF alloc THEN Len(s1.nodes) ELSE node
        index == IF Has(rec.index) THEN Val(rec.index) ELSE 0
    IN  IF StopsIntake(nd, index) THEN [st |-> s1, rc |-> NL_STOP]
        ELSE
        LET s2 == SetKey(s1, nd, index, rec) IN
        IF Has(rec.list)
        THEN LET r == KeyLoop(s2, nd, 0, Val(rec.list), 1) IN
             IF r.rc # NL_OK THEN r
             ELSE KeyLoop(r.st, parent, nd, list, k + 1)
        ELSE KeyLoop(s2, parent, nd, list, k + 1)

yaml_parse_key_list(st, parent, list) == KeyLoop(st, parent, 0, list, 1)

\* get_next_child: the idx-th entry of node's children list, or NULL
get_next_child(st, node, idx) ==
    IF idx + 1 <= Len(st.nodes[node].children)
    THEN st.nodes[node].children[idx + 1]
    ELSE 0

\* the leaf branch of cleanup_children: free every name from slot 1 on
RECURSIVE FreeKeys(_, _, _)
FreeKeys(st, id, i) ==
    IF i >= st.nodes[id].lkl_maxattr THEN st
    ELSE LET v == st.nodes[id].lkl_list[i].lkp_values IN
         FreeKeys(IF Has(v) THEN FreeStr(st, Val(v)) ELSE st, id, i + 1)

RECURSIVE cleanup_children(_, _)
cleanup_children(st, parent) ==
    IF st.nodes[parent].children = <<>>
    THEN [st |-> ListDel(FreeKeys(st, parent, 1), parent), ret |-> TRUE]
    ELSE
    LET child == get_next_child(st, parent, 0)
        r == cleanup_children(st, child)
        s1 == IF r.ret THEN FreeNode(r.st, child) ELSE r.st
    IN  IF s1.nodes[parent].children = <<>>
        THEN [st |-> s1, ret |-> FALSE]
        ELSE LET r2 == cleanup_children(s1, parent) IN
             [st |-> r2.st, ret |-> FALSE]

\* ------------------------------------------------------- the reader's buffer
\* store text at byte offsets off, off+1, ... of the buffer the YAML engine
\* passed; a store outside the buffer is recorded in oob
PutText(st, off, text) ==
    [st EXCEPT
       !.buf = [j \in DOMAIN st.buf |->
                   IF j >= off /\ j < off + Len(text)
                   THEN text[j - off + 1] ELSE st.buf[j]],
       !.oob = @ \/ (Len(text) > 0 /\ (off < 0 \/ off + Len(text) > BufSize))]

\* what snprintf(data->buffer, *size, ...) stores for the formatted text: at
\* most size - 1 characters and a terminating NUL, nothing when size is 0;
\* a negative int size is a huge size_t.  Its return value is Len(text).
Snprintf(st, text) ==
    IF st.size = 0 THEN st
    ELSE IF st.size < 0 \/ Len(text) < st.size
         THEN PutText(st, st.pos, text \o <<NUL>>)
         ELSE PutText(st, st.pos, SubSeq(text, 1, st.size - 1) \o <<NUL>>)

\* data->buffer += n; *size -= n
Advance(st, n) == [st EXCEPT !.pos = @ + n, !.size = @ - n]

\* len = snprintf(data->buffer, *size, ...): the call that the C library
\* fails (the failat-th of the batch, none when failat is 0) stores nothing
\* and returns a negative value
Fmt(st, text) ==
    IF st.failat # 0 /\ st.nfmt + 1 = st.failat
    THEN [st |-> [st EXCEPT !.nfmt = @ + 1], len |-> 0 - 1]
    ELSE [st |-> Snprintf([st EXCEPT !.nfmt = @ + 1], text),
          len |-> Len(text)]

\* lines 710-712, the label unwind
Unwind(st) ==
    [st EXCEPT !.pos = @ - (st.indent + 2), !.size = @ - (st.indent + 2)]

\* strcat(data->buffer, ", "): append at the first NUL at or after pos
StrcatComma(st) ==
    LET nuls == {j \in DOMAIN st.buf : j >= st.pos /\ st.buf[j] = NUL} IN
    IF nuls = {} THEN [st EXCEPT !.oob = TRUE]
    ELSE LET z == CHOOSE j \in nuls : \A m \in nuls : j <= m IN
         PutText(st, z, <<",", " ", NUL>>)

\* the text a scalar attribute is formatted to, by its declared type
FmtValue(type, a) ==
    CASE type = NLA_STRING -> a.s
      [] type = NLA_U16 -> Dec(a.n % 65536)
      [] type = NLA_U32 -> Dec(a.n)
      [] type = NLA_U64 -> Dec(a.n)
      [] type = NLA_S16 -> LET u == a.n % 65536 IN
                           FmtSigned(IF u >= 32768 THEN u - 65536 ELSE u)
      [] type = NLA_S32 -> FmtSigned(a.n)
      [] type = NLA_S64 -> FmtSigned(a.n)
      [] OTHER -> <<>>

IsFmtType(type) ==
    type \in {NLA_STRING, NLA_U16, NLA_U32, NLA_U64, NLA_S16, NLA_S32, NLA_S64}

KeyName(key) == IF Has(key.lkp_values) THEN Val(key.lkp_values).text
                ELSE <<"(", "n", "u", "l", "l", ")">>

\* lines 525-546: indentation, dash and "key: " in front of a scalar value
ScalarPrefix(st, key, mapping, len) ==
    LET block == ~HasBit(mapping, LNKF_FLOW)
        indent == IF st.indent # 0 THEN st.indent ELSE 2
        s1 == IF block THEN PutText(st, st.pos, Spaces(indent)) ELSE st
        s2 == IF block /\ HasBit(mapping, LNKF_SEQUENCE)
              THEN PutText(s1, s1.pos + indent - 2, <<"-">>) ELSE s1
        m2 == IF block /\ HasBit(mapping, LNKF_SEQUENCE)
                 /\ HasBit(mapping, LNKF_MAPPING)
              THEN ClearBit(mapping, LNKF_SEQUENCE) ELSE mapping
        s3 == IF block THEN Advance(s2, indent) ELSE s2
        txt == KeyName(key) \o <<":", " ">>
        f == Fmt(s3, txt)
    IN  IF ~HasBit(m2, LNKF_MAPPING)
        THEN [st |-> s3, mapping |-> m2, len |-> len, unw |-> FALSE]
        ELSE IF f.len < 0
        THEN [st |-> f.st, mapping |-> m2, len |-> f.len, unw |-> TRUE]
        ELSE [st |-> Advance(f.st, f.len), mapping |-> m2, len |-> f.len,
              unw |-> FALSE]

\* lines 700-709: the separator after a value.  if (len) is taken for a
\* negative len as well, so the else branch is entered by goto only.
ValueTail(st, mapping, len) ==
    IF len # 0
    THEN IF HasBit(mapping, LNKF_FLOW)
         THEN [st |-> [StrcatComma(st) EXCEPT !.pos = @ + len + 2,
                                              !.size = @ + len + 2],
               len |-> len + 2]
         ELSE [st |-> [PutText(st, st.pos + len, <<"\n">>) EXCEPT
                          !.pos = @ + len + 1, !.size = @ + len + 1],
               len |-> len + 1]
    ELSE [st |-> st, len |-> len]

\* lines 576-604: the header written in front of a nested element
NestedHeader(st, key) ==
    IF HasBit(key.lkp_key_format, LNKF_FLOW)
    THEN Spaces(st.indent) \o KeyName(key) \o
         <<":", " ",
           IF HasBit(key.lkp_key_format, LNKF_SEQUENCE) THEN "[" ELSE "{",
           " ">>
    ELSE Spaces(st.indent) \o KeyName(key) \o <<":", "\n">>

\* a variant in which no element raises data->indent
NestedIndentFlat(key) == 0

\* lines 589-594: by how much a block element raises data->indent
NestedIndent(key) ==
    IF HasBit(key.lkp_key_format, LNKF_FLOW) THEN 0
    ELSE (IF HasBit(key.lkp_key_format, LNKF_MAPPING) THEN 2 ELSE 0)
       + (IF HasBit(key.lkp_key_format, LNKF_SEQUENCE) THEN 2 ELSE 0)

\* a variant that puts the closing bracket behind the last separator
NestedCloseAppend(st, key) ==
    IF HasBit(key.lkp_key_format, LNKF_FLOW)
    THEN LET brace == IF HasBit(key.lkp_key_format, LNKF_SEQUENCE)
                      THEN <<" ", "]", "\n">> ELSE <<" ", "}", "\n">>
         IN  Advance(PutText(st, st.pos, brace), 3)
    ELSE st

\* lines 612-623: closing a flow element over the last two bytes written
NestedClose(st, key) ==
    IF HasBit(key.lkp_key_format, LNKF_FLOW)
    THEN LET brace == IF HasBit(key.lkp_key_format, LNKF_SEQUENCE)
                      THEN <<" ", "]", "\n">> ELSE <<" ", "}", "\n">>
         IN  Advance(PutText(st, st.pos - 2, brace), 1)
    ELSE st

\* a variant that leaves parent->lkp_values as it is
LabelSlotKeep(st, key, attr, parent, mapping, len) ==
    LET first == st.cur = st.root
        txt == KeyName(key) \o <<":", "\n">>
        named == first /\ Len(KeyName(key)) > 0
        f == Fmt(st, txt)
        s1 == IF named THEN Advance(f.st, f.len) ELSE st
        ind == IF HasBit(mapping, LNKF_FLOW) THEN 0
               ELSE IF HasBit(mapping, LNKF_SEQUENCE) THEN 2
               ELSE IF HasBit(mapping, LNKF_MAPPING) THEN 2 ELSE 0
        s2 == IF first THEN [s1 EXCEPT !.indent = ind] ELSE s1
    IN  IF named /\ f.len < 0
        THEN [st |-> f.st, len |-> f.len, unw |-> TRUE]
        ELSE [st |-> s2, len |-> IF named THEN 0 ELSE len, unw |-> FALSE]

\* lines 629-660: a label slot at index 1
LabelSlot(st, key, attr, parent, mapping, len) ==
    LET first == st.cur = st.root
        txt == KeyName(key) \o <<":", "\n">>
        named == first /\ Len(KeyName(key)) > 0
        w == Fmt(st, txt)
        s1 == IF named THEN Advance(w.st, w.len) ELSE st
        ind == IF HasBit(mapping, LNKF_FLOW) THEN 0
               ELSE IF HasBit(mapping, LNKF_SEQUENCE) THEN 2
               ELSE IF HasBit(mapping, LNKF_MAPPING) THEN 2 ELSE 0
        s2 == IF first THEN [s1 EXCEPT !.indent = ind] ELSE s1
        pv == s2.nodes[parent[1]].lkl_list[parent[2]].lkp_values
        s3 == IF Has(attr) /\ Has(pv)
              THEN LET f == FreeStr(s2, Val(pv)) IN
                   [StrDup(f, Val(attr).s) EXCEPT
                      !.nodes[parent[1]].lkl_list[parent[2]].lkp_values =
                          NewStr(f, Val(attr).s)]
              ELSE s2
    IN  IF named /\ w.len < 0
        THEN [st |-> w.st, len |-> w.len, unw |-> TRUE]
        ELSE [st |-> s3, len |-> IF named THEN 0 ELSE len, unw |-> FALSE]

\* nla_parse / genlmsg_parse into an attribute table of max slots: tb[i] is
\* the attribute of type i when the message carries one, NULL otherwise
Tb(raw, max) ==
    [i \in 1..(max - 1) |-> IF i \in DOMAIN raw THEN <<raw[i]>> ELSE <<>>]

\* yaml_parse_value_list.  VLoop is the loop over the slots of node from slot
\* i on, with the function's locals mapping, child_idx and len; ElemLoop is
\* the loop over the elements of the nested attribute of slot i.
RECURSIVE VLoop(_, _, _, _, _, _, _, _)
RECURSIVE ElemLoop(_, _, _, _, _, _)

ElemLoop(st, node, i, elems, e, len) ==
    IF e > Len(elems) THEN [st |-> st, len |-> len, unw |-> FALSE]
    ELSE IF elems[e].bad THEN [st |-> st, len |-> len, unw |-> FALSE]
    ELSE
    LET key == st.nodes[node].lkl_list[i]
        hdr == NestedHeader(st, key)
        d == NestedIndent(key)
        f == Fmt(st, hdr)
        s1 == Advance(f.st, f.len)
        s2 == [s1 EXCEPT !.indent = @ + d]
        s3 == VLoop(s2, s2.cur,
                    Tb(elems[e].attrs, s2.nodes[s2.cur].lkl_maxattr),
                    <<node, i>>, 1, key.lkp_key_format, 0, 0)
        s4 == [s3 EXCEPT !.indent = @ - d]
        s5 == NestedClose(s4, s4.nodes[node].lkl_list[i])
    IN  IF f.len < 0 THEN [st |-> f.st, len |-> f.len, unw |-> TRUE]
        ELSE ElemLoop(s5, node, i, elems, e + 1, 0)

VLoop(st, node, attrs, parent, i, mapping, child_idx, len) ==
    IF i >= st.nodes[node].lkl_maxattr THEN st
    ELSE
    LET key == st.nodes[node].lkl_list[i]
        attr == attrs[i]
        type == key.lkp_data_type
    IN
    IF ~Has(attr) /\ ~Has(key.lkp_values)
    THEN VLoop(st, node, attrs, parent, i + 1, mapping, child_idx, len)
    ELSE IF type = NLA_NESTED
    THEN IF ~Has(attr)
         THEN VLoop(st, node, attrs, parent, i + 1, mapping,
                    child_idx + 1, len)
         ELSE LET next == get_next_child(st, node, child_idx)
                  old == st.cur
                  r == ElemLoop([st EXCEPT !.cur = next], node, i,
                                Val(attr).e, 1, len)
                  t == ValueTail([r.st EXCEPT !.cur = old], mapping, r.len)
              IN  IF r.unw
                  THEN VLoop(Unwind(r.st), node, attrs, parent, i + 1,
                             mapping, child_idx + 1, r.len)
                  ELSE VLoop(t.st, node, attrs, parent, i + 1, mapping,
                             child_idx + 1, t.len)
    ELSE IF type = NLA_NUL_STRING
    THEN LET l == IF i = 1
                  THEN LabelSlot(st, key, attr, parent, mapping, len)
                  ELSE [st |-> st, len |-> len, unw |-> FALSE]
             t == ValueTail(l.st, mapping, l.len)
         IN  IF l.unw
             THEN VLoop(Unwind(l.st), node, attrs, parent, i + 1, mapping,
                        child_idx, l.len)
             ELSE VLoop(t.st, node, attrs, parent, i + 1, mapping,
                        child_idx, t.len)
    ELSE IF ~Has(attr)
    THEN VLoop(st, node, attrs, parent, i + 1, mapping, child_idx, len)
    ELSE LET p == ScalarPrefix(st, key, mapping, len)
             f == Fmt(p.st, FmtValue(type, Val(attr)))
             s1 == IF IsFmtType(type) THEN f.st ELSE p.st
             l1 == IF IsFmtType(type) THEN f.len ELSE p.len
             t == ValueTail(s1, p.mapping, l1)
         IN  IF p.unw
             THEN VLoop(Unwind(p.st), node, attrs, parent, i + 1, p.mapping,
                        child_idx, p.len)
             ELSE VLoop(t.st, node, attrs, parent, i + 1, p.mapping,
                        child_idx, t.len)

yaml_parse_value_list(st, attrs, parent) ==
    VLoop(st, st.cur, attrs, parent, 1,
          st.nodes[parent[1]].lkl_list[parent[2]].lkp_key_format, 0, 0)

\* ------------------------------------------------------- netlink callbacks
\* nl_syserr2nlerr: the libnl code of an errno value
nl_syserr2nlerr(e) ==
    LET a == IF e < 0 THEN 0 - e ELSE e IN
    CASE a = EINVAL -> NLE_INVAL
      [] a = ENOMEM -> NLE_NOMEM
      [] OTHER -> 1

\* nl_geterror: the static message of a libnl code
nl_geterror(c) ==
    LET a == IF c < 0 THEN 0 - c ELSE c IN
    CASE a = NLE_INVAL -> "Invalid input data or parameter"
      [] a = NLE_NOMEM -> "Out of memory"
      [] a = NLE_BAD_SOCK -> "Bad socket"
      [] a = NLE_INTR -> "Interrupted system call"
      [] OTHER -> "Unspecific failure"

\* a const char * held in data->errmsg: the text it points at and the memory
\* that holds it ("static" for libnl's table, "msg" for the message payload)
StaticStr(text) == <<[text |-> text, mem |-> "static"]>>
MsgStr(text) == <<[text |-> text, mem |-> "msg"]>>

HAVE_USRSPC_NLMSGERR == TRUE

\* the value-batch branch of yaml_netlink_msg_parse
ParseValues(st, msg) ==
    LET maxtype == st.nodes[st.cur].lkl_maxattr
        s1 == [st EXCEPT !.size = BufSize - st.pos]
    IN  yaml_parse_value_list(s1, Tb(msg.attrs, maxtype), <<st.cur, 1>>)

\* the key-table branch of yaml_netlink_msg_parse
ParseKeys(st, msg) ==
    IF Has(msg.list)
    THEN LET r == yaml_parse_key_list(st, 0, Val(msg.list)) IN
         IF r.rc # NL_OK THEN r
         ELSE [st |-> [r.st EXCEPT !.cur = r.st.root], rc |-> NL_OK]
    ELSE [st |-> st, rc |-> NL_OK]

\* what yaml_netlink_msg_parse returns once the message has been handled
MoreExpected(msg) == IF msg.multi THEN NL_OK ELSE NL_STOP

yaml_netlink_msg_parse(st, msg) ==
    IF msg.bad THEN [st |-> st, rc |-> NL_SKIP]
    ELSE IF msg.create
    THEN LET r == ParseKeys(st, msg) IN
         IF r.rc # NL_OK THEN r
         ELSE [st |-> r.st, rc |-> MoreExpected(msg)]
    ELSE [st |-> ParseValues(st, msg), rc |-> MoreExpected(msg)]

\* lines 803-804: does the terminal message report a kernel error
ReportsError(msg) == (msg.is_error \/ msg.ack_tlvs) /\ msg.error # 0

\* lines 808-825: the string cached in data->errmsg for a kernel error
ErrorString(msg) ==
    IF HAVE_USRSPC_NLMSGERR /\ msg.ack_tlvs /\ Has(msg.extack)
    THEN MsgStr(Val(msg.extack))
    ELSE StaticStr(nl_geterror(nl_syserr2nlerr(msg.error)))

\* lines 829-830: cleanup_children(data->root); free(data->root)
Teardown(st) == FreeNode(cleanup_children(st, st.root).st, st.root)

yaml_netlink_msg_complete(st, msg) ==
    LET s1 == IF ReportsError(msg)
              THEN [st EXCEPT !.errmsg = ErrorString(msg),
                              !.perror = YAML_READER_ERROR]
              ELSE Teardown(st)
    IN  [st |-> [s1 EXCEPT !.complete = TRUE], rc |-> NL_STOP]

\* ------------------------------------------------- messages of the kernel
IntV(n) == [k |-> "int", n |-> n, s |-> <<>>, e |-> <<>>]
StrV(t) == [k |-> "str", n |-> 0, s |-> t, e |-> <<>>]
NestV(elems) == [k |-> "nest", n |-> 0, s |-> <<>>, e |-> elems]
Elem(raw) == [bad |-> FALSE, attrs |-> raw]

\* one key record of a key table (LN_SCALAR_ATTR_* attributes, each optional)
KeyRec(ls, idx, type, name, fmt, list) ==
    [bad |-> FALSE, list_size |-> ls, index |-> idx, nla_type |-> type,
     value |-> name, key_format |-> fmt, list |-> list]

\* key table of scenario S1: the label "net" and the scalar "mtu"
KeysS1 ==
    << KeyRec(<<2>>, <<1>>, <<NLA_NUL_STRING>>, <<T_net>>,
              <<LNKF_MAPPING>>, <<>>),
       KeyRec(<<>>, <<2>>, <<NLA_U32>>, <<T_mtu>>, <<0>>, <<>>) >>

\* key table of scenario S2: "net", and "nets" as a sequence of mappings
KeysS2 ==
    << KeyRec(<<2>>, <<1>>, <<NLA_NUL_STRING>>, <<T_net>>,
              <<LNKF_MAPPING>>, <<>>),
       KeyRec(<<>>, <<2>>, <<NLA_NESTED>>, <<T_nets>>,
              <<LNKF_SEQUENCE + LNKF_MAPPING>>,
              << << KeyRec(<<3>>, <<1>>, <<NLA_STRING>>, <<T_nid>>, <<>>, <<>>),
                    KeyRec(<<>>, <<2>>, <<NLA_STRING>>, <<T_status>>, <<>>, <<>>),
                    KeyRec(<<>>, <<3>>, <<NLA_U32>>, <<T_refcount>>, <<>>, <<>>)
                 >> >>) >>

\* a key table three levels deep whose root has two nested keys
KeysDeep ==
    << KeyRec(<<3>>, <<1>>, <<NLA_NUL_STRING>>, <<T_net>>,
              <<LNKF_MAPPING>>, <<>>),
       KeyRec(<<>>, <<2>>, <<NLA_NESTED>>, <<T_nets>>, <<LNKF_MAPPING>>,
              << << KeyRec(<<2>>, <<1>>, <<NLA_S16>>, <<T_mtu>>, <<>>, <<>>),
                    KeyRec(<<>>, <<2>>, <<NLA_NESTED>>, <<T_status>>,
                           <<LNKF_FLOW>>,
                           << << KeyRec(<<1>>, <<1>>, <<NLA_U16>>, <<T_nid>>,
                                        <<>>, <<>>) >> >>)
                 >> >>),
       KeyRec(<<>>, <<3>>, <<NLA_NESTED>>, <<T_lo>>,
              <<LNKF_FLOW + LNKF_SEQUENCE>>,
              << << KeyRec(<<1>>, <<1>>, <<NLA_STRING>>, <<T_up>>,
                           <<>>, <<>>) >> >>) >>

\* key table of scenario S3: that of S2 with the root key's format FLOW
KeysS3 ==
    << KeyRec(<<2>>, <<1>>, <<NLA_NUL_STRING>>, <<T_net>>,
              <<LNKF_FLOW>>, <<>>),
       KeysS2[2] >>

KeyTables == {KeysS1, KeysS2, KeysS3, KeysDeep}

\* key tables of two records as any sender can put them together: the
\* second record with or without an index, in or out of the declared range,
\* either record of a nested or a scalar type, with or without a nested key
\* list, whose first record does or does not declare a list size
ChildLists ==
    {<<>>,
     << << KeyRec(<<1>>, <<1>>, <<NLA_U32>>, <<T_mtu>>, <<>>, <<>>) >> >>,
     << << KeyRec(<<>>, <<1>>, <<NLA_U32>>, <<T_mtu>>, <<>>, <<>>) >> >>}

IntakeTables ==
    {<< KeyRec(<<ls>>, <<1>>, <<t1>>, <<T_net>>, <<LNKF_MAPPING>>, c1),
        KeyRec(<<>>, i2, <<t2>>, <<T_nets>>, <<LNKF_MAPPING>>, c2) >> :
        ls \in {1, 2}, t1 \in {NLA_NUL_STRING, NLA_NESTED},
        c1 \in ChildLists, i2 \in {<<>>, <<0>>, <<2>>, <<3>>},
        t2 \in {NLA_U32, NLA_NESTED}, c2 \in ChildLists}

\* value batches, as attribute type -> payload
ValsS1 == [i \in {2} |-> IntV(9000)]
ValsLabel == [i \in {1} |-> StrV(T_lo)]
ElemS2a == Elem([i \in 1..3 |-> CASE i = 1 -> StrV(T_tcp1)
                                  [] i = 2 -> StrV(T_up)
                                  [] OTHER -> IntV(3)])
ElemS2b == Elem([i \in 1..3 |-> CASE i = 1 -> StrV(T_tcp2)
                                  [] i = 2 -> StrV(T_down)
                                  [] OTHER -> IntV(0)])
ValsS2 == [i \in {2} |-> NestV(<<ElemS2a, ElemS2b>>)]
ValsS2One == [i \in {2} |-> NestV(<<ElemS2a>>)]
ValsDeep ==
    [i \in {2, 3} |->
        IF i = 2
        THEN NestV(<< Elem([j \in {1, 2} |->
                        IF j = 1 THEN IntV(65531)
                        ELSE NestV(<< Elem([m \in {1} |-> IntV(7)]) >>)]) >>)
        ELSE NestV(<< Elem([j \in {1} |-> StrV(T_up)]) >>)]
ValsEmpty == [i \in {} |-> IntV(0)]

ValueBatches == {ValsS1, ValsLabel, ValsS2, ValsS2One, ValsDeep, ValsEmpty}

\* messages handed to the NL_CB_VALID callback
ValidMsgs ==
    {[create |-> TRUE, multi |-> m, bad |-> FALSE, list |-> <<l>>,
      attrs |-> <<>>] : m \in BOOLEAN, l \in KeyTables}
    \cup
    {[create |-> FALSE, multi |-> m, bad |-> FALSE, list |-> <<>>,
      attrs |-> a] : m \in BOOLEAN, a \in ValueBatches}
    \cup
    {[create |-> c, multi |-> m, bad |-> TRUE, list |-> <<>>,
      attrs |-> <<>>] : c \in BOOLEAN, m \in BOOLEAN}

\* messages handed to the NL_CB_FINISH callback
FinishMsgs ==
    {t \in [is_error : BOOLEAN, ack_tlvs : BOOLEAN,
            error : {0, 0 - EINVAL},
            extack : {<<>>, <<"invalid nid">>}] :
        /\ Has(t.extack) => (t.ack_tlvs /\ t.error # 0)
        /\ t.is_error => t.error # 0}

\* the kernel sends attributes of the types its key table declared
KindOK(type, v) ==
    CASE type = NLA_NESTED -> v.k = "nest"
      [] type \in {NLA_STRING, NLA_NUL_STRING} -> v.k = "str"
      [] IsFmtType(type) -> v.k = "int"
      [] OTHER -> FALSE

NestedBefore(st, node, i) ==
    Cardinality({j \in 1..(i - 1) :
                    st.nodes[node].lkl_list[j].lkp_data_type = NLA_NESTED})

\* the kernel repeats the key table of the session, it sends no other one
SameTable(st, msg) ==
    /\ Len(Val(msg.list)) + 1 = st.nodes[st.root].lkl_maxattr
    /\ \A k \in 1..Len(Val(msg.list)) :
         LET key == st.nodes[st.root].lkl_list[k] IN
         /\ key.lkp_data_type = Val(Val(msg.list)[k].nla_type)
         /\ key.lkp_key_format = Val(Val(msg.list)[k].key_format)

RECURSIVE Conforms(_, _, _)
Conforms(st, node, raw) ==
    /\ node # 0
    /\ st.nodes[node].lkl_maxattr >= 2
    /\ \A i \in DOMAIN raw :
         /\ i \in 1..(st.nodes[node].lkl_maxattr - 1)
         /\ KindOK(st.nodes[node].lkl_list[i].lkp_data_type, raw[i])
         /\ Has(st.nodes[node].lkl_list[i].lkp_values)
         /\ raw[i].k = "nest" =>
              LET c == get_next_child(st, node, NestedBefore(st, node, i)) IN
              /\ c # 0
              /\ \A e \in 1..Len(raw[i].e) :
                    raw[i].e[e].bad \/ Conforms(st, c, raw[i].e[e].attrs)

\* ------------------------------------------------------- the outbound path
\* The text of a write call is the strndup'ed copy of the emitter's buffer:
\* characters at positions 1..Len, the last one the terminating NUL.  A
\* char * is a position in it, 0 is NULL.  A C string is what lies between a
\* position and the next NUL.

\* the one element of a set; The({e : x \in {v}}) is e with x standing for
\* v, and v is computed once
The(S) == CHOOSE x \in S : TRUE

\* strndup((char *)buffer, size)
StrNDup(text) == text \o <<NUL>>

At(b, p) == IF p \in 1..Len(b) THEN b[p] ELSE NUL

\* position of the NUL that ends the string at p
StrEnd(b, p) == CHOOSE e \in p..(Len(b) + 1) :
                   /\ At(b, e) = NUL
                   /\ \A j \in p..(e - 1) : At(b, j) # NUL

CStr(b, p) == [j \in 1..(StrEnd(b, p) - p) |-> b[p + j - 1]]

\* strchr(p, c), c not NUL
StrChr(b, p, c) ==
    LET hits == {j \in p..(StrEnd(b, p) - 1) : b[j] = c} IN
    IF hits = {} THEN 0 ELSE CHOOSE j \in hits : \A k \in hits : j <= k

\* strsep(&p, delim): the token's start, the text with the delimiter
\* replaced by NUL, and the new value of p
StrSep(b, p, delim) ==
    IF p = 0 THEN [tok |-> 0, buf |-> b, next |-> 0]
    ELSE LET d == StrChr(b, p, delim) IN
         IF d = 0 THEN [tok |-> p, buf |-> b, next |-> 0]
         ELSE [tok |-> p, buf |-> [b EXCEPT ![d] = NUL], next |-> d + 1]

isspace(c) == c \in {" ", "\n", "\t"}

\* lines 974-981
indent_level(b, str) ==
    LET e == StrEnd(b, str)
        stop == CHOOSE t \in str..e :
                   /\ ~isspace(At(b, t))
                   /\ \A j \in str..(t - 1) : isspace(At(b, j))
    IN  stop - str

LNKF_END == 8
best_indent == 2

HasBrace(b, line) == StrChr(b, line, "{") # 0 \/ StrChr(b, line, "[") # 0

\* a variant that opens a mapping at every increase of the indentation
format_type_every_increase(b, line, offset, prev) ==
    LET new_indent == indent_level(b, line) IN
    IF HasBrace(b, line) THEN [fmt |-> LNKF_FLOW, offset |-> offset]
    ELSE IF new_indent < offset
    THEN [fmt |-> LNKF_END, offset |-> offset - best_indent]
    ELSE IF At(b, line + new_indent) = "-" /\ At(b, line + new_indent + 1) = " "
    THEN [fmt |-> LNKF_SEQUENCE, offset |-> new_indent + best_indent]
    ELSE IF offset # new_indent
    THEN [fmt |-> LNKF_MAPPING, offset |-> new_indent]
    ELSE [fmt |-> 0, offset |-> offset]

\* lines 985-1014: the format of a line and the new value of *offset
yaml_format_type(b, line, offset, prev) ==
    LET new_indent == indent_level(b, line) IN
    IF HasBrace(b, line) THEN [fmt |-> LNKF_FLOW, offset |-> offset]
    ELSE IF new_indent < offset
    THEN [fmt |-> LNKF_END, offset |-> offset - best_indent]
    ELSE IF At(b, line + new_indent) = "-" /\ At(b, line + new_indent + 1) = " "
    THEN [fmt |-> LNKF_SEQUENCE, offset |-> new_indent + best_indent]
    ELSE IF offset # new_indent
    THEN [fmt |-> IF prev # LNKF_MAPPING THEN LNKF_MAPPING ELSE 0,
          offset |-> new_indent]
    ELSE [fmt |-> 0, offset |-> offset]

\* lines 1096-1115.  Each loop runs from tmp; a quotation mark without a
\* closing one makes strchr return NULL, and the store through NULL - 1 is
\* recorded in ub.
RECURSIVE QuoteLoop(_, _)
QuoteLoop(arg, q) ==
    The({
    LET line == StrChr(r.buf, r.tmp, q) IN
    IF r.ub \/ line = 0 THEN r
    ELSE LET b1 == [r.buf EXCEPT ![line] = "%", ![line + 1] = " "]
             close == StrChr(b1, line, q)
         IN  IF close = 0
             THEN [r EXCEPT !.buf = b1, !.ub = TRUE]
             ELSE QuoteLoop([r EXCEPT
                               !.buf = [b1 EXCEPT ![close - 1] = " ",
                                                  ![close] = "%"],
                               !.tmp = close - 1], q)
    : r \in {arg} })

yaml_quotation_handling(b) ==
    QuoteLoop(QuoteLoop([buf |-> b, tmp |-> 1, ub |-> FALSE], "\""), "'")

YAML_WRITER_ERROR == 6
YAML_MEMORY_ERROR == 1
NLE_OBJ_NOTFOUND == 12
LN_SCALAR_ATTR_LIST == 1
LN_SCALAR_ATTR_VALUE == 5

\* the attributes of an outgoing message in the order they were put:
\* nla_nest_start, nla_put_string, nla_nest_end
TokOpen == [k |-> "open", type |-> LN_SCALAR_ATTR_LIST, s |-> <<>>]
TokStr(text) == [k |-> "str", type |-> LN_SCALAR_ATTR_VALUE, s |-> text]
TokClose == [k |-> "close", type |-> LN_SCALAR_ATTR_LIST, s |-> <<>>]

\* room left in the message for one more attribute header
HasRoom(o) ==
    Cardinality({j \in 1..Len(o.toks) : o.toks[j].k # "close"}) < o.env.room

\* yaml_emitter_set_writer_error, lines 965-972
yaml_emitter_set_writer_error(o, problem) ==
    [o EXCEPT !.error = YAML_WRITER_ERROR, !.problem = problem]

\* nlmsg_free(msg): a second free of the same message is recorded in dfree
nlmsg_free(o) ==
    [o EXCEPT !.nfree = @ + 1, !.dfree = @ \/ (o.nfree >= o.nalloc)]

\* NLA_PUT_STRING(msg, LN_SCALAR_ATTR_VALUE, p): ok is FALSE where the macro
\* jumps to nla_put_failure
NlaPutString(o, p) ==
    IF HasRoom(o)
    THEN [o EXCEPT !.toks = Append(@, TokStr(CStr(o.buf, p))), !.ok = TRUE]
    ELSE [o EXCEPT !.ok = FALSE, !.putfail = TRUE]

\* lines 1034-1055: the entries of a flow line, split at the commas
RECURSIVE FlowLoop(_)
FlowLoop(arg) ==
    The({
    LET r == The({x : x \in {StrSep(o.buf, o.hdr, ",")}})
        line0 == r.tok
        line1 == IF StrChr(r.buf, line0, "{") # 0 \/ StrChr(r.buf, line0, "[") # 0
                    \/ StrChr(r.buf, line0, " ") # 0
                 THEN line0 + 1 ELSE line0
        t1 == StrChr(r.buf, line1, "}")
        tmp == IF t1 # 0 THEN t1 ELSE StrChr(r.buf, line1, "]")
        b2 == IF tmp # 0 THEN [r.buf EXCEPT ![tmp] = NUL] ELSE r.buf
        o1 == [o EXCEPT !.buf = b2, !.hdr = r.next]
    IN  IF line0 = 0
        THEN [o EXCEPT !.toks = Append(@, TokClose), !.hdr = 0, !.rc = 0]
        ELSE The({ IF ~o2.ok THEN [o2 EXCEPT !.rc = 0] ELSE FlowLoop(o2)
                   : o2 \in {NlaPutString(o1, line1)} })
    : o \in {arg} })

\* lines 1016-1088.  o.hdr is *hdr on entry and on return; o.entry and
\* o.indent are the caller's, through the pointers; fmt is the callee's copy.
\* BlockTop is the do-while loop at its top, BlockLoop the loop from the
\* label have_next_line with the line at hand.
RECURSIVE yaml_create_nested_list(_, _)
RECURSIVE BlockLoop(_, _, _, _)

BlockTop(o, hdr, fmt) ==
    The({ BlockLoop([o EXCEPT !.buf = r.buf, !.entry = r.next], hdr, fmt,
                    r.tok)
          : r \in {StrSep(o.buf, o.entry, "\n")} })

BlockLoop(arg, hdr, fmt, line) ==
    The({
    LET done == [o EXCEPT !.toks = Append(@, TokClose), !.hdr = line,
                          !.rc = 0]
    IN  IF line = 0 \/ CStr(o.buf, line) = <<>>
           \/ CStr(o.buf, line) = <<".", ".", ".">>
        THEN done
        ELSE LET f == yaml_format_type(o.buf, line, o.indent, fmt)
                 o1 == [o EXCEPT !.indent = f.offset]
             IN  IF f.fmt = LNKF_END
                 THEN [done EXCEPT !.indent = f.offset]
                 ELSE IF f.fmt # 0
                 THEN The({ IF n.rc # 0 THEN [n EXCEPT !.hdr = hdr]
                            ELSE BlockLoop(n, hdr, f.fmt, n.hdr)
                            : n \in {yaml_create_nested_list(
                                         [o1 EXCEPT !.hdr = line], f.fmt)} })
                 ELSE The({ IF ~p.ok THEN [p EXCEPT !.rc = 0, !.hdr = hdr]
                            ELSE BlockTop(p, hdr, f.fmt)
                            : p \in {NlaPutString(o1, line + o1.indent)} })
    : o \in {arg} })

yaml_create_nested_list(arg, fmt) ==
    The({
    IF ~HasRoom(o)
    THEN [nlmsg_free(yaml_emitter_set_writer_error(o,
              "Emmitter netlink list creation failed"))
            EXCEPT !.rc = 0 - EINVAL]
    ELSE LET o1 == [o EXCEPT !.toks = Append(@, TokOpen)] IN
         IF HasBit(fmt, LNKF_FLOW) THEN FlowLoop(o1)
         ELSE The({ IF ~p.ok THEN [p EXCEPT !.rc = 0]
                    ELSE BlockTop(p, o1.hdr, fmt)
                    : p \in {NlaPutString(o1, o1.hdr + o1.indent)} })
    : o \in {arg} })

\* a variant that does not look at the result of nl_socket_add_membership
add_group_unchecked(env, group) ==
    IF group \notin env.groups THEN 0 - NLE_OBJ_NOTFOUND ELSE 0

\* lines 187-199: the family resolves the group's name and the socket joins
\* it, or either step fails with a negative code
lustre_netlink_add_group(env, group) ==
    IF group \notin env.groups THEN 0 - NLE_OBJ_NOTFOUND
    ELSE IF ~env.sub_ok THEN 0 - NLE_NOMEM
    ELSE 0

\* lines 1213-1233 from the label nla_put_failure
WriteReturn(o) ==
    [o EXCEPT !.ret = IF o.error = YAML_NO_ERROR THEN 1 ELSE 0]

\* a variant that sends the command alone and forgets the message
WriteSendSimple(o) ==
    IF o.nogroups
    THEN WriteReturn(yaml_emitter_set_writer_error(o,
             "Emitter contains no valid Netlink groups"))
    ELSE LET rc == IF o.env.send_ok THEN 0 ELSE 0 - NLE_NOMEM
             m == [kind |-> "simple", stamp |-> o.env.out, toks |-> <<>>]
             o1 == [o EXCEPT !.nsend = @ + 1,
                             !.sent = IF rc = 0 THEN Append(@, m) ELSE @]
         IN  WriteReturn(IF rc < 0
                         THEN yaml_emitter_set_writer_error(o1, nl_geterror(rc))
                         ELSE o1)

\* lines 1213-1229: after the loop
WriteSend(arg) ==
    The({
    IF o.nogroups
    THEN WriteReturn(yaml_emitter_set_writer_error(o,
             "Emitter contains no valid Netlink groups"))
    ELSE LET rc == IF o.env.send_ok THEN 0 ELSE 0 - NLE_NOMEM
             m == IF o.hasmsg
                  THEN [kind |-> "msg", stamp |-> o.stamp, toks |-> o.toks]
                  ELSE [kind |-> "simple", stamp |-> o.env.out, toks |-> <<>>]
             o1 == [o EXCEPT !.nsend = @ + 1,
                             !.sent = IF rc = 0 THEN Append(@, m) ELSE @]
             o2 == IF o.hasmsg THEN nlmsg_free(o1) ELSE o1
         IN  WriteReturn(IF rc < 0
                         THEN yaml_emitter_set_writer_error(o2, nl_geterror(rc))
                         ELSE o2)
    : o \in {arg} })

\* lines 1137-1211: WriteLoop is the while loop at its condition, WriteLine
\* the label already_have_line, WriteBody the label complicated
RECURSIVE WriteLoop(_)
RECURSIVE WriteLine(_)

WriteBody(arg) ==
    The({
    IF ~o.hasmsg /\ ~o.env.alloc_ok
    THEN WriteReturn([o EXCEPT !.error = YAML_MEMORY_ERROR])
    ELSE
    LET o1 == IF o.hasmsg THEN o
              ELSE [o EXCEPT !.hasmsg = TRUE, !.nalloc = @ + 1,
                             !.stamp = o.env.out]
        f == yaml_format_type(o1.buf, o1.line, o1.indent, o1.fmt)
        o2 == [o1 EXCEPT !.indent = f.offset, !.fmt = f.fmt]
    IN  IF f.fmt # 0
        THEN The({
             IF n.rc # 0
             THEN WriteReturn(nlmsg_free(
                      yaml_emitter_set_writer_error(n, nl_geterror(n.rc))))
             ELSE IF n.hdr # 0 THEN WriteLine([n EXCEPT !.line = n.hdr])
             ELSE WriteLoop([n EXCEPT !.line = 0])
             : n \in {yaml_create_nested_list([o2 EXCEPT !.hdr = o2.line],
                                              f.fmt)} })
        ELSE The({ IF ~p.ok THEN WriteReturn(p) ELSE WriteLoop(p)
                   : p \in {NlaPutString(o2, o2.line + o2.indent)} })
    : o \in {arg} })

\* a variant that resolves a group only while none has been found
WriteLineFirstGroup(arg) ==
    The({
    LET s == CStr(o.buf, o.line)
        tmp == StrChr(o.buf, o.line, ":")
        b1 == [o.buf EXCEPT ![tmp] = NUL]
        group == CStr(b1, o.line)
        rc == lustre_netlink_add_group(o.env, group)
        o1 == [o EXCEPT !.buf = b1, !.rc = rc, !.calls = Append(@, group)]
        o2 == [o1 EXCEPT !.nogroups = FALSE, !.line = tmp + 2]
    IN  IF s = <<"-", "-", "-">> \/ s = <<".", ".", ".">> THEN WriteLoop(o)
        ELSE IF At(o.buf, o.line) \notin {" ", "-"} /\ o.nogroups
        THEN IF tmp = 0 THEN WriteLoop(o)
             ELSE IF rc < 0
             THEN WriteReturn(yaml_emitter_set_writer_error(o1,
                      "Netlink group does not exist"))
             ELSE IF tmp + 2 > Len(b1) THEN [o2 EXCEPT !.ub = TRUE]
             ELSE IF HasBrace(b1, tmp + 2) THEN WriteBody(o2)
             ELSE WriteLoop(o2)
        ELSE WriteBody(o)
    : o \in {arg} })

WriteLine(arg) ==
    The({
    LET s == CStr(o.buf, o.line)
        tmp == StrChr(o.buf, o.line, ":")
        b1 == [o.buf EXCEPT ![tmp] = NUL]
        group == CStr(b1, o.line)
        rc == lustre_netlink_add_group(o.env, group)
        o1 == [o EXCEPT !.buf = b1, !.rc = rc, !.calls = Append(@, group)]
        o2 == [o1 EXCEPT !.nogroups = FALSE, !.line = tmp + 2]
    IN  IF s = <<"-", "-", "-">> \/ s = <<".", ".", ".">> THEN WriteLoop(o)
        ELSE IF At(o.buf, o.line) \notin {" ", "-"}
        THEN IF tmp = 0 THEN WriteLoop(o)
             ELSE IF rc < 0
             THEN WriteReturn(yaml_emitter_set_writer_error(o1,
                      "Netlink group does not exist"))
             ELSE IF tmp + 2 > Len(b1) THEN [o2 EXCEPT !.ub = TRUE]
             ELSE IF HasBrace(b1, tmp + 2) THEN WriteBody(o2)
             ELSE WriteLoop(o2)
        ELSE WriteBody(o)
    : o \in {arg} })

WriteLoop(arg) ==
    The({
    IF o.entry = 0 THEN WriteSend(o)
    ELSE LET r == The({x : x \in {StrSep(o.buf, o.entry, "\n")}})
             o1 == [o EXCEPT !.buf = r.buf, !.entry = r.next, !.line = r.tok]
         IN  IF CStr(r.buf, r.tok) = <<>> THEN WriteSend(o1)
             ELSE WriteLine(o1)
    : o \in {arg} })

\* lines 1123-1233: one call of the write handler on the emitter's text,
\* with the emitter's error state as the caller left it
yaml_netlink_write_handler(text, env, error, problem) ==
    LET q == yaml_quotation_handling(StrNDup(text))
        o == [buf |-> q.buf, entry |-> 1, line |-> 1, hdr |-> 0, indent |-> 0,
              fmt |-> 0, toks |-> <<>>, hasmsg |-> FALSE, stamp |-> env.out,
              nogroups |-> TRUE, rc |-> 0, error |-> error,
              problem |-> problem, sent |-> <<>>, nsend |-> 0,
              calls |-> <<>>, nalloc |-> 0, nfree |-> 0, dfree |-> FALSE,
              putfail |-> FALSE, ok |-> TRUE, ub |-> q.ub, env |-> env,
              ret |-> 0]
    IN  IF q.ub THEN o ELSE WriteLoop(o)

\* ------------------------------------------------ texts of the YAML engine
\* the document of scenario S4
DocS4 ==
    << "n", "e", "t", ":", "\n", " ", " ", "a", "d", "d", ":", "\n", " ",
      " ", " ", " ", "n", "i", "d", ":", " ", "t", "c", "p", "1", "\n", " ",
      " ", " ", " ", "m", "t", "u", ":", " ", "9", "0", "0", "0", "\n" >>

\* a group and no body
DocGroupOnly ==
    << "n", "e", "t", ":", "\n" >>

\* body lines and no unindented key
DocNoGroup ==
    << " ", " ", "n", "i", "d", ":", " ", "t", "c", "p", "1", "\n", " ",
      " ", "m", "t", "u", ":", " ", "9", "\n" >>

\* a group the family does not have
DocUnknown ==
    << "b", "a", "d", ":", "\n", " ", " ", "n", "i", "d", ":", " ", "t",
      "c", "p", "1", "\n" >>

\* a block sequence of mappings
DocSeq ==
    << "n", "e", "t", ":", "\n", " ", " ", "-", " ", "n", "i", "d", ":",
      " ", "t", "c", "p", "1", "\n", " ", " ", " ", " ", "m", "t", "u", ":",
      " ", "9", "\n", " ", " ", "-", " ", "n", "i", "d", ":", " ", "t", "c",
      "p", "2", "\n" >>

\* two block containers, the first ended by dedent
DocDedent ==
    << "n", "e", "t", ":", "\n", " ", " ", "a", "d", "d", ":", "\n", " ",
      " ", " ", " ", "n", "i", "d", ":", " ", "t", "c", "p", "1", "\n", " ",
      " ", "d", "e", "l", ":", "\n", " ", " ", " ", " ", "n", "i", "d", ":",
      " ", "t", "c", "p", "2", "\n" >>

\* a flow mapping on the group's line
DocFlowGroup ==
    << "n", "e", "t", ":", " ", "{", " ", "n", "i", "d", ":", " ", "t", "c",
      "p", "1", ",", " ", "m", "t", "u", ":", " ", "9", " ", "}", "\n" >>

\* a flow sequence inside a block container, lines after it
DocFlowIn ==
    << "n", "e", "t", ":", "\n", " ", " ", "a", "d", "d", ":", "\n", " ",
      " ", " ", " ", "i", "d", "s", ":", " ", "[", " ", "1", ",", " ", "2",
      " ", "]", "\n", " ", " ", " ", " ", "m", "t", "u", ":", " ", "9", "\n" >>

\* two unindented keys
DocTwoGroups ==
    << "n", "e", "t", ":", "\n", " ", " ", "a", ":", " ", "1", "\n", "l",
      "n", "e", "t", ":", "\n", " ", " ", "b", ":", " ", "2", "\n" >>

\* a double-quoted and a single-quoted scalar
DocQuoted ==
    << "n", "e", "t", ":", "\n", " ", " ", "a", ":", " ", "\"", "x", "y",
      " ", "z", "\"", "\n", " ", " ", "b", ":", " ", "'", "p", "q", "'",
      "\n" >>

\* document markers around the text
DocMarked ==
    << "-", "-", "-", "\n", "n", "e", "t", ":", "\n", " ", " ", "n", "i",
      "d", ":", " ", "t", "c", "p", "1", "\n", ".", ".", ".", "\n" >>

Docs ==
    {DocS4, DocGroupOnly, DocNoGroup, DocUnknown,
     DocSeq, DocDedent, DocFlowGroup, DocFlowIn,
     DocTwoGroups, DocQuoted, DocMarked}

\* ------------------------------------------------------------ the session
VARIABLES
    complete, indent, cur, root, errmsg, pos,   \* struct yaml_netlink_input
    nodes, strs, dfree,                         \* heap: schema nodes, names
    buf, oob,                                   \* buffer of the YAML engine
    perror,                                     \* parser->error
    pc, ret, size_read,                         \* read handler: state, results
    rc, nmsg, vals, nschema, sealed, term, last, got,
    ypc, ytext, yenv,                           \* write handler: state, inputs
    eerror, eproblem,                           \* emitter->error, ->problem
    wret, sent, nsend, calls,                   \* write handler: results
    nalloc, nfree, mdfree, putfail, wub,        \* the outgoing message
    decoded,
    wiring,                                     \* what the set-up call left
    ktable,                                     \* a key table to be taken in
    ftype,                                      \* a call of yaml_format_type
    quoted,                                     \* a call of yaml_quotation_handling
    fmtfail                                     \* the snprintf call that fails

outvars == <<ypc, ytext, yenv, eerror, eproblem, wret, sent, nsend, calls,
             nalloc, nfree, mdfree, putfail, wub, decoded>>

vars == <<complete, indent, cur, root, errmsg, pos, nodes, strs, dfree, buf,
          oob, perror, pc, ret, size_read, rc, nmsg, vals, nschema, sealed,
          term, last, got, outvars, wiring, ktable, ftype, quoted, fmtfail>>

MaxSchemaMsgs == 2

FreshBuf == [j \in 0..(BufSize - 1) |-> FILL]

\* the session as the callbacks see it
Data ==
    [complete |-> complete, indent |-> indent, cur |-> cur, root |-> root,
     errmsg |-> errmsg, pos |-> pos, size |-> 0, nodes |-> nodes,
     strs |-> strs, dfree |-> dfree, buf |-> buf, oob |-> oob,
     perror |-> perror, failat |-> fmtfail, nfmt |-> 0]

Store(st) ==
    /\ complete' = st.complete
    /\ indent' = st.indent
    /\ cur' = st.cur
    /\ root' = st.root
    /\ errmsg' = st.errmsg
    /\ pos' = st.pos
    /\ nodes' = st.nodes
    /\ strs' = st.strs
    /\ dfree' = st.dfree
    /\ buf' = st.buf
    /\ oob' = st.oob
    /\ perror' = st.perror

\* yaml_parser_set_reader_error, lines 319-329
yaml_parser_set_reader_error(w, problem, value) ==
    [w EXCEPT !.error = YAML_READER_ERROR, !.problem = problem,
              !.problem_value = value]

\* a variant that stops after genl_connect
register_connect_only(e) == e.connect

\* lines 151-175: genl_connect, nl_socket_enable_broadcast_error and
\* nl_socket_set_ext_ack, each with its result code
lustre_netlink_register(e) ==
    IF e.connect < 0 THEN e.connect
    ELSE IF e.bcast < 0 THEN e.bcast
    ELSE e.ext_ack

\* the parser and the session before yaml_parser_set_input_netlink: buf is
\* the session's memory, read_handler_data the parser's pointer to it,
\* cb_valid and cb_finish the socket's callbacks that hold it
Unwired ==
    [buf |-> "none", read_handler_data |-> FALSE, cb_valid |-> FALSE,
     cb_finish |-> FALSE, error |-> YAML_NO_ERROR, problem |-> "",
     problem_value |-> 0, ret |-> TRUE, env |-> <<>>]

\* what the library does in one set-up call: calloc, the three steps of
\* lustre_netlink_register and the two calls of nl_socket_modify_cb
WiringEnvs ==
    [calloc_ok : BOOLEAN,
     connect : {0, 0 - NLE_BAD_SOCK}, bcast : {0, 0 - NLE_BAD_SOCK},
     ext_ack : {0, 0 - NLE_INVAL},
     valid : {0, 0 - NLE_NOMEM}, finish : {0, 0 - NLE_NOMEM}]

\* lines 900-944
yaml_parser_set_input_netlink(w0, e) ==
    LET w == [w0 EXCEPT !.env = <<e>>]
        reg == lustre_netlink_register(e)
        w1 == [w EXCEPT !.buf = "live"]
        w2 == [w1 EXCEPT !.read_handler_data = TRUE]
        w3 == [w2 EXCEPT !.cb_valid = TRUE]
        failed(x, c) == [x EXCEPT !.buf = "freed", !.ret = ~(c < 0)]
    IN  IF ~e.calloc_ok
        THEN [w EXCEPT !.error = YAML_MEMORY_ERROR, !.ret = FALSE]
        ELSE IF reg < 0
        THEN failed(yaml_parser_set_reader_error(w1,
                        "netlink setup failed", 0 - reg), reg)
        ELSE IF e.valid < 0
        THEN failed(yaml_parser_set_reader_error(w2,
                        "netlink msg recv setup failed", 0 - e.valid),
                    e.valid)
        ELSE IF e.finish < 0
        THEN failed(yaml_parser_set_reader_error(w3,
                        "netlink msg cleanup setup failed", 0 - e.finish),
                    e.finish)
        ELSE [w3 EXCEPT !.cb_finish = TRUE, !.ret = TRUE]

\* the parser and the session after a set-up call in which nothing failed
Wired ==
    yaml_parser_set_input_netlink(Unwired,
        [calloc_ok |-> TRUE, connect |-> 0, bcast |-> 0, ext_ack |-> 0,
         valid |-> 0, finish |-> 0])

\* calloc'ed session after yaml_parser_set_input_netlink; nothing read yet
ReaderInit ==
    /\ wiring = Wired
    /\ ktable = <<>>
    /\ ftype = <<>>
    /\ quoted = <<>>
    /\ fmtfail = 0
    /\ complete = FALSE
    /\ indent = 0
    /\ cur = 0
    /\ root = 0
    /\ errmsg = <<>>
    /\ pos = 0
    /\ nodes = <<>>
    /\ strs = {}
    /\ dfree = FALSE
    /\ buf = FreshBuf
    /\ oob = FALSE
    /\ perror = YAML_NO_ERROR
    /\ pc = "idle"
    /\ ret = 1
    /\ size_read = 0
    /\ rc = 0
    /\ nmsg = 0
    /\ vals = <<>>
    /\ nschema = 0
    /\ sealed = FALSE
    /\ term = <<>>
    /\ last = "init"
    /\ got = <<>>

\* the emitter's side before any text is handed to the write handler
EmitterInit ==
    /\ eerror = YAML_NO_ERROR
    /\ eproblem = ""
    /\ wret = 1
    /\ sent = <<>>
    /\ nsend = 0
    /\ calls = <<>>
    /\ nalloc = 0
    /\ nfree = 0
    /\ mdfree = FALSE
    /\ putfail = FALSE
    /\ wub = FALSE
    /\ decoded = <<>>

\* a program that reads: no emitter is set up
Init ==
    /\ ReaderInit
    /\ EmitterInit
    /\ ypc = "off"
    /\ ytext = <<>>
    /\ yenv = <<>>

\* a program that has a parser and a socket and has not set the input yet
SetupInit ==
    /\ wiring = Unwired
    /\ ktable = <<>>
    /\ ftype = <<>>
    /\ quoted = <<>>
    /\ fmtfail = 0
    /\ complete = FALSE /\ indent = 0 /\ cur = 0 /\ root = 0
    /\ errmsg = <<>> /\ pos = 0 /\ nodes = <<>> /\ strs = {}
    /\ dfree = FALSE /\ buf = FreshBuf /\ oob = FALSE
    /\ perror = YAML_NO_ERROR
    /\ pc = "new"
    /\ ret = 1 /\ size_read = 0 /\ rc = 0 /\ nmsg = 0 /\ vals = <<>>
    /\ nschema = 0 /\ sealed = FALSE /\ term = <<>> /\ last = "init"
    /\ got = <<>>
    /\ EmitterInit
    /\ ypc = "off"
    /\ ytext = <<>>
    /\ yenv = <<>>

\* the call of yaml_parser_set_input_netlink; the reader can be used when it
\* returned true
SetInput ==
    /\ pc = "new"
    /\ \E e \in WiringEnvs :
         \E w \in {yaml_parser_set_input_netlink(wiring, e)} :
            /\ wiring' = w
            /\ perror' = w.error
            /\ pc' = IF w.ret THEN "idle" ELSE "failed"
    /\ UNCHANGED <<complete, indent, cur, root, errmsg, pos, nodes, strs,
                   dfree, buf, oob, ret, size_read, rc, nmsg, vals, nschema,
                   sealed, term, last, got>>
    /\ UNCHANGED <<outvars, ktable, ftype, quoted, fmtfail>>

\* a read handler without the test of lines 851-854
NeverComplete == FALSE

\* lines 851-854: the session is complete
AlreadyComplete == complete

ReadComplete ==
    /\ pc = "idle"
    /\ AlreadyComplete
    /\ size_read' = 0
    /\ ret' = 1
    /\ last' = "complete"
    /\ UNCHANGED <<complete, indent, cur, root, errmsg, pos, nodes, strs,
                   dfree, buf, oob, perror, pc, rc, nmsg, vals, nschema,
                   sealed, term, got>>
    /\ UNCHANGED <<outvars, wiring, ktable, ftype, quoted, fmtfail>>

\* *size_read belongs to the caller: on entry it holds 0 when the caller
\* cleared it (libyaml does) and otherwise whatever the caller left there
Unset == 0 - 1

\* lines 856-859: data->buffer = buffer, then into nl_recvmsgs_report
ReadStart ==
    /\ pc = "idle"
    /\ ~AlreadyComplete
    /\ pos' = 0
    /\ buf' = FreshBuf
    /\ pc' = "recv"
    /\ rc' = 0
    /\ nmsg' = 0
    /\ vals' = <<>>
    /\ last' = "start"
    /\ ret' = 1
    /\ size_read' \in {0, Unset}
    /\ got' = <<>>
    /\ UNCHANGED <<complete, indent, cur, root, errmsg, nodes, strs,
                   dfree, oob, perror, nschema, sealed, term>>
    /\ UNCHANGED <<outvars, wiring, ktable, ftype, quoted, fmtfail>>

\* a read handler without the branch of lines 860-862: -NLE_INTR falls into
\* the rc < 0 branch
OnInterruptAsError ==
    /\ errmsg' = StaticStr(nl_geterror(0 - NLE_INTR))
    /\ ret' = 0
    /\ UNCHANGED <<complete, indent, cur, root, pos, nodes, strs, dfree,
                   buf, oob, perror, size_read>>

\* lines 860-862: rc == -NLE_INTR
OnInterrupt ==
    /\ size_read' = 0
    /\ ret' = 1
    /\ UNCHANGED <<complete, indent, cur, root, errmsg, pos, nodes, strs,
                   dfree, buf, oob, perror>>

ReadInterrupted ==
    /\ pc = "recv"
    /\ nmsg = 0
    /\ OnInterrupt
    /\ rc' = 0 - NLE_INTR
    /\ pc' = "idle"
    /\ last' = "intr"
    /\ UNCHANGED <<nmsg, vals, nschema, sealed, term, got>>
    /\ UNCHANGED <<outvars, wiring, ktable, ftype, quoted, fmtfail>>

\* an rc < 0 branch that returns 0 without recording the error string
OnTransportErrorSilent(e) ==
    /\ ret' = 0
    /\ UNCHANGED <<complete, indent, cur, root, errmsg, pos, nodes, strs,
                   dfree, buf, oob, perror, size_read>>

\* lines 863-865: rc < 0
OnTransportError(e) ==
    /\ errmsg' = StaticStr(nl_geterror(e))
    /\ ret' = 0
    /\ UNCHANGED <<complete, indent, cur, root, pos, nodes, strs, dfree,
                   buf, oob, perror, size_read>>

ReadTransportError ==
    /\ pc = "recv"
    /\ nmsg = 0
    /\ \E e \in {0 - NLE_NOMEM, 0 - NLE_BAD_SOCK} :
         OnTransportError(e) /\ rc' = e
    /\ pc' = "idle"
    /\ last' = "err"
    /\ UNCHANGED <<nmsg, vals, nschema, sealed, term, got>>
    /\ UNCHANGED <<outvars, wiring, ktable, ftype, quoted, fmtfail>>

\* a read handler without the parser->error test of lines 866-869
OnReceivedUnchecked(st) ==
    /\ ret' = 1
    /\ size_read' = IF BufSize > st.pos THEN st.pos ELSE BufSize

\* lines 866-876, once nl_recvmsgs_report has returned rc >= 0
OnReceived(st) ==
    IF st.perror # YAML_NO_ERROR
    THEN /\ ret' = 0
         /\ size_read' = size_read
    ELSE /\ ret' = 1
         /\ size_read' = IF BufSize > st.pos THEN st.pos ELSE BufSize

\* the receive loop ends when a callback returns NL_STOP or the message was
\* the last of its datagram
Ends(r, msg) == r.rc = NL_STOP \/ ~msg.multi

\* NL_CB_VALID: yaml_netlink_msg_parse on one message
DeliverValid ==
    /\ pc = "recv"
    /\ nmsg < MaxMsgs
    /\ \E msg \in ValidMsgs :
         /\ msg.create => nschema < MaxSchemaMsgs
         /\ (msg.create /\ ~msg.bad /\ root # 0) => SameTable(Data, msg)
         /\ (~msg.create /\ ~msg.bad) => Conforms(Data, cur, msg.attrs)
         /\ ~msg.create => cur # 0
         /\ LET r == yaml_netlink_msg_parse(Data, msg) IN
            /\ (nmsg + 1 = MaxMsgs) => Ends(r, msg)
            /\ Store(r.st)
            /\ nschema' = IF msg.create /\ ~msg.bad THEN nschema + 1 ELSE nschema
            /\ sealed' = (sealed \/ (~msg.create /\ ~msg.bad))
            /\ vals' = IF ~msg.create /\ ~msg.bad
                       THEN Append(vals, msg.attrs) ELSE vals
            /\ last' = IF msg.bad THEN "skip"
                       ELSE IF msg.create THEN "keys" ELSE "values"
            /\ IF Ends(r, msg)
               THEN pc' = "idle" /\ OnReceived(r.st)
               ELSE pc' = "recv" /\ UNCHANGED <<ret, size_read>>
    /\ nmsg' = nmsg + 1
    /\ rc' = nmsg + 1
    /\ UNCHANGED <<term, got>>
    /\ UNCHANGED <<outvars, wiring, ktable, ftype, quoted, fmtfail>>

\* NL_CB_FINISH: yaml_netlink_msg_complete on the terminal message
DeliverFinish ==
    /\ pc = "recv"
    /\ \E msg \in FinishMsgs :
         /\ root # 0 \/ ReportsError(msg)
         /\ LET r == yaml_netlink_msg_complete(Data, msg) IN
            /\ Store(r.st)
            /\ term' = <<msg>>
            /\ OnReceived(r.st)
    /\ pc' = "idle"
    /\ last' = "finish"
    /\ nmsg' = nmsg + 1
    /\ rc' = nmsg + 1
    /\ UNCHANGED <<vals, nschema, sealed, got>>
    /\ UNCHANGED <<outvars, wiring, ktable, ftype, quoted, fmtfail>>

yaml_netlink_read_handler ==
    \/ ReadComplete
    \/ ReadStart
    \/ ReadInterrupted
    \/ ReadTransportError
    \/ DeliverValid
    \/ DeliverFinish

\* what the caller finds behind a const char *: the text while the memory
\* holding it is alive; anything once libnl has released the message
Garbage == "<released memory>"
Deref(p) == IF p.mem = "static" THEN {p.text} ELSE {p.text, Garbage}

yaml_parser_get_reader_error ==
    /\ pc = "idle"
    /\ ret = 0
    /\ \E t \in (IF Has(errmsg) THEN Deref(Val(errmsg)) ELSE {"NULL"}) :
         got' = <<t>>
    /\ last' = "get"
    /\ UNCHANGED <<complete, indent, cur, root, errmsg, pos, nodes, strs,
                   dfree, buf, oob, perror, pc, ret, size_read, rc,
                   nmsg, vals, nschema, sealed, term>>
    /\ UNCHANGED <<outvars, wiring, ktable, ftype, quoted, fmtfail>>

Next == yaml_netlink_read_handler \/ yaml_parser_get_reader_error

Spec == Init /\ [][Next]_vars

\* the receive in progress can hand the kernel's terminal message to the
\* NL_CB_FINISH callback
CanFinish == pc = "recv"

\* The caller goes on reading while the stream has not ended, and the kernel
\* ends every dump with a terminal message: a receive that can deliver it
\* again and again eventually does (strong fairness of DeliverFinish, its
\* enabling condition written out).
FairSpec ==
    /\ Spec
    /\ WF_vars(ReadStart)
    /\ (<>[](~CanFinish) \/ <>Has(term))

\* a program from the set-up call on: when the call succeeds the reads follow
SetupNext == SetInput \/ Next

SetupSpec == SetupInit /\ [][SetupNext]_vars

\* a reader whose C library fails one formatting call of each value batch
MaxFail == 2

FailInit ==
    /\ wiring = Wired
    /\ ktable = <<>>
    /\ ftype = <<>>
    /\ quoted = <<>>
    /\ fmtfail \in 1..MaxFail
    /\ complete = FALSE /\ indent = 0 /\ cur = 0 /\ root = 0
    /\ errmsg = <<>> /\ pos = 0 /\ nodes = <<>> /\ strs = {}
    /\ dfree = FALSE /\ buf = FreshBuf /\ oob = FALSE
    /\ perror = YAML_NO_ERROR
    /\ pc = "idle"
    /\ ret = 1 /\ size_read = 0 /\ rc = 0 /\ nmsg = 0 /\ vals = <<>>
    /\ nschema = 0 /\ sealed = FALSE /\ term = <<>> /\ last = "init"
    /\ got = <<>>
    /\ EmitterInit
    /\ ypc = "off"
    /\ ytext = <<>>
    /\ yenv = <<>>

FailSpec == FailInit /\ [][Next]_vars

\* a session that is handed one key table, of any make, and then the
\* terminal message
IntakeInit ==
    /\ wiring = Wired
    /\ ktable \in {<<t>> : t \in IntakeTables}
    /\ ftype = <<>>
    /\ quoted = <<>>
    /\ fmtfail = 0
    /\ complete = FALSE /\ indent = 0 /\ cur = 0 /\ root = 0
    /\ errmsg = <<>> /\ pos = 0 /\ nodes = <<>> /\ strs = {}
    /\ dfree = FALSE /\ buf = FreshBuf /\ oob = FALSE
    /\ perror = YAML_NO_ERROR
    /\ pc = "intake"
    /\ ret = 1 /\ size_read = 0 /\ rc = 0 /\ nmsg = 0 /\ vals = <<>>
    /\ nschema = 0 /\ sealed = FALSE /\ term = <<>> /\ last = "init"
    /\ got = <<>>
    /\ EmitterInit
    /\ ypc = "off"
    /\ ytext = <<>>
    /\ yenv = <<>>

\* NL_CB_VALID with the key table: yaml_netlink_msg_parse
SchemaIntake ==
    /\ pc = "intake"
    /\ \E r \in {yaml_netlink_msg_parse(Data,
                    [create |-> TRUE, multi |-> TRUE, bad |-> FALSE,
                     list |-> ktable, attrs |-> <<>>])} :
         /\ Store(r.st)
         /\ rc' = r.rc
    /\ pc' = "parsed"
    /\ nschema' = 1
    /\ last' = "keys"
    /\ UNCHANGED <<ret, size_read, nmsg, vals, sealed, term, got>>
    /\ UNCHANGED <<outvars, wiring, ktable, ftype, quoted, fmtfail>>

\* NL_CB_FINISH with a terminal message that reports no error, after a
\* table whose intake stayed inside the nodes it allocated
IntakeFinish ==
    /\ pc = "parsed"
    /\ root # 0
    /\ ~oob
    /\ \E r \in {yaml_netlink_msg_complete(Data,
                    [is_error |-> FALSE, ack_tlvs |-> FALSE, error |-> 0,
                     extack |-> <<>>])} :
         /\ Store(r.st)
         /\ rc' = r.rc
    /\ pc' = "finished"
    /\ last' = "finish"
    /\ UNCHANGED <<ret, size_read, nmsg, vals, nschema, sealed, term, got>>
    /\ UNCHANGED <<outvars, wiring, ktable, ftype, quoted, fmtfail>>

IntakeNext == SchemaIntake \/ IntakeFinish

IntakeSpec == IntakeInit /\ [][IntakeNext]_vars

\* ---------------------------------- messages in front of the key table
\* NL_CB_VALID with a value batch while data->cur is NULL: line 746 reads
\* data->cur->keys.lkl_maxattr through the NULL pointer, and the process
\* takes the fault
DeliverValidEarly ==
    /\ pc = "recv"
    /\ nmsg < MaxMsgs
    /\ cur = 0
    /\ \E msg \in ValidMsgs :
         /\ ~msg.create
         /\ ~msg.bad
         /\ vals' = Append(vals, msg.attrs)
    /\ pc' = "fault"
    /\ last' = "values"
    /\ nmsg' = nmsg + 1
    /\ UNCHANGED <<complete, indent, cur, root, errmsg, pos, nodes, strs,
                   dfree, buf, oob, perror, ret, size_read, rc, nschema,
                   sealed, term, got>>
    /\ UNCHANGED <<outvars, wiring, ktable, ftype, quoted, fmtfail>>

\* NL_CB_FINISH with a terminal message that reports no error while
\* data->root is NULL: cleanup_children(NULL) reads parent->children at
\* line 774, and the process takes the fault
DeliverFinishEarly ==
    /\ pc = "recv"
    /\ root = 0
    /\ \E msg \in FinishMsgs :
         /\ ~ReportsError(msg)
         /\ term' = <<msg>>
    /\ pc' = "fault"
    /\ last' = "finish"
    /\ nmsg' = nmsg + 1
    /\ UNCHANGED <<complete, indent, cur, root, errmsg, pos, nodes, strs,
                   dfree, buf, oob, perror, ret, size_read, rc, vals,
                   nschema, sealed, got>>
    /\ UNCHANGED <<outvars, wiring, ktable, ftype, quoted, fmtfail>>

\* a reader whose kernel may send any message first
EarlyNext == Next \/ DeliverValidEarly \/ DeliverFinishEarly

EarlySpec == Init /\ [][EarlyNext]_vars

\* ------------------------------------- the diagnostics of a failed set-up

\* what buf->errmsg reads at line 891 through the parser's pointer: nothing
\* is read when the pointer is NULL; the session was calloc'ed and has no
\* errmsg while it is alive; once it is freed the read can produce anything
ReadSession(w) ==
    IF ~w.read_handler_data THEN {"NULL"}
    ELSE IF w.buf = "freed" THEN {"NULL", Garbage}
    ELSE {"NULL"}

\* yaml_parser_get_reader_error (lines 883-892) or yaml_parser_log_error
\* (lines 1289-1333) called on the parser after the set-up call returned
\* false; got is the text returned, or the text printed
AskAfterFailure ==
    /\ pc = "failed"
    /\ \E fn \in {"get", "log"} :
       \E t \in ReadSession(wiring) :
          /\ last' = fn
          /\ got' = IF fn = "get" THEN <<t>>
                    ELSE IF perror = YAML_MEMORY_ERROR
                    THEN <<"Memory error: Not enough memory for parser">>
                    ELSE IF t = "NULL" THEN <<wiring.problem>>
                    ELSE <<t>>
    /\ pc' = "asked"
    /\ UNCHANGED <<complete, indent, cur, root, errmsg, pos, nodes, strs,
                   dfree, buf, oob, perror, ret, size_read, rc,
                   nmsg, vals, nschema, sealed, term>>
    /\ UNCHANGED <<outvars, wiring, ktable, ftype, quoted, fmtfail>>

AskNext == SetupNext \/ AskAfterFailure

AskSpec == SetupInit /\ [][AskNext]_vars

\* ------------------------------- value intake under two nested keys
\* key tables with the label "net" and the nested keys of slots 2 and 3,
\* each with a list of one key, "mtu" under slot 2 and "refcount" under
\* slot 3; a nested key is sent with or without a name, in block or in flow
\* style, and the records of the two in either order
PairTables ==
    {<< KeyRec(<<3>>, <<1>>, <<NLA_NUL_STRING>>, <<T_net>>,
               <<LNKF_MAPPING>>, <<>>) >> \o
     (LET r2 == KeyRec(<<>>, <<2>>, <<NLA_NESTED>>, n2, <<f>>,
                       << << KeyRec(<<1>>, <<1>>, <<NLA_U32>>, <<T_mtu>>,
                                    <<>>, <<>>) >> >>)
          r3 == KeyRec(<<>>, <<3>>, <<NLA_NESTED>>, n3, <<f>>,
                       << << KeyRec(<<1>>, <<1>>, <<NLA_U32>>, <<T_refcount>>,
                                    <<>>, <<>>) >> >>)
      IN  IF fwd THEN <<r2, r3>> ELSE <<r3, r2>>) :
        n2 \in {<<>>, <<T_nets>>}, n3 \in {<<>>, <<T_lo>>},
        f \in {LNKF_MAPPING, LNKF_FLOW + LNKF_MAPPING}, fwd \in BOOLEAN}

\* value batches for such a table: each nested attribute absent or present
\* with one element, which carries the child's attribute or none
PairValues == {7, 9}

PairElems ==
    {Elem([j \in {1} |-> IntV(v)]) : v \in PairValues}
    \cup {Elem([j \in {} |-> IntV(0)])}

PairBatches ==
    {[i \in D |-> NestV(<<el[i]>>)] :
        D \in SUBSET {2, 3}, el \in [{2, 3} -> PairElems]}

PairInit ==
    /\ wiring = Wired
    /\ ktable \in {<<t>> : t \in PairTables}
    /\ ftype = <<>>
    /\ quoted = <<>>
    /\ fmtfail = 0
    /\ complete = FALSE /\ indent = 0 /\ cur = 0 /\ root = 0
    /\ errmsg = <<>> /\ pos = 0 /\ nodes = <<>> /\ strs = {}
    /\ dfree = FALSE /\ buf = FreshBuf /\ oob = FALSE
    /\ perror = YAML_NO_ERROR
    /\ pc = "intake"
    /\ ret = 1 /\ size_read = 0 /\ rc = 0 /\ nmsg = 0 /\ vals = <<>>
    /\ nschema = 0 /\ sealed = FALSE /\ term = <<>> /\ last = "init"
    /\ got = <<>>
    /\ EmitterInit
    /\ ypc = "off"
    /\ ytext = <<>>
    /\ yenv = <<>>

\* NL_CB_VALID with a value batch: yaml_netlink_msg_parse
ValueIntake ==
    /\ pc = "parsed"
    /\ root # 0
    /\ \E b \in PairBatches :
         \E r \in {yaml_netlink_msg_parse(Data,
                      [create |-> FALSE, multi |-> TRUE, bad |-> FALSE,
                       list |-> <<>>, attrs |-> b])} :
            /\ Store(r.st)
            /\ rc' = r.rc
            /\ vals' = Append(vals, b)
    /\ pc' = "valued"
    /\ last' = "values"
    /\ sealed' = TRUE
    /\ UNCHANGED <<ret, size_read, nmsg, nschema, term, got>>
    /\ UNCHANGED <<outvars, wiring, ktable, ftype, quoted, fmtfail>>

PairNext == SchemaIntake \/ ValueIntake

PairSpec == PairInit /\ [][PairNext]_vars

\* ------------------------------------------ one call of yaml_format_type
MaxLevel == 3

\* the emitter indents by best_indent: the columns of a line and of *offset
Levels == {best_indent * k : k \in 0..MaxLevel}

\* what a body line holds behind its indentation
LineTexts ==
    {<<"a", ":", " ", "1">>, <<"-", " ", "a">>, <<"-", "a">>,
     <<"a", ":", " ", "{", " ", "b", " ", "}">>,
     <<"-", " ", "[", " ", "b", " ", "]">>}

FormatInputs ==
    [text : {Spaces(n) \o t : n \in Levels, t \in LineTexts},
     offset : Levels,
     prev : {0, LNKF_FLOW, LNKF_SEQUENCE, LNKF_MAPPING, LNKF_END},
     res : {<<>>}]

\* a program about to classify one line of the text
FormatInit ==
    /\ wiring = Wired
    /\ ktable = <<>>
    /\ complete = FALSE /\ indent = 0 /\ cur = 0 /\ root = 0
    /\ errmsg = <<>> /\ pos = 0 /\ nodes = <<>> /\ strs = {}
    /\ dfree = FALSE /\ buf = FreshBuf /\ oob = FALSE
    /\ perror = YAML_NO_ERROR
    /\ pc = "idle"
    /\ ret = 1 /\ size_read = 0 /\ rc = 0 /\ nmsg = 0 /\ vals = <<>>
    /\ nschema = 0 /\ sealed = FALSE /\ term = <<>> /\ last = "init"
    /\ got = <<>>
    /\ ftype \in {<<c>> : c \in FormatInputs}
    /\ quoted = <<>>
    /\ fmtfail = 0
    /\ EmitterInit
    /\ ypc = "line"
    /\ ytext = <<>>
    /\ yenv = <<>>

\* lines 1064 and 1189: fmt = yaml_format_type(emitter, line, &indent, fmt)
FormatLine ==
    /\ ypc = "line"
    /\ \E c \in {Val(ftype)} :
         ftype' = <<[c EXCEPT !.res =
                       <<yaml_format_type(StrNDup(c.text), 1, c.offset,
                                          c.prev)>>]>>
    /\ ypc' = "typed"
    /\ UNCHANGED <<complete, indent, cur, root, errmsg, pos, nodes, strs,
                   dfree, buf, oob, perror, pc, ret, size_read, rc, nmsg,
                   vals, nschema, sealed, term, last, got, wiring, ktable>>
    /\ UNCHANGED <<ytext, yenv, eerror, eproblem, wret, sent, nsend, calls,
                   nalloc, nfree, mdfree, putfail, wub, decoded, quoted, fmtfail>>

FormatNext == FormatLine

FormatSpec == FormatInit /\ [][FormatNext]_vars

\* ----------------------------------- one call of yaml_quotation_handling
MaxText == 4

QuoteChars == {"a", " ", "\"", "'"}

\* the texts of up to MaxText characters
QuoteTexts ==
    UNION {[1..n -> QuoteChars] : n \in 1..MaxText}

\* a program about to preprocess the text of a write call
QuoteInit ==
    /\ wiring = Wired
    /\ ktable = <<>>
    /\ ftype = <<>>
    /\ complete = FALSE /\ indent = 0 /\ cur = 0 /\ root = 0
    /\ errmsg = <<>> /\ pos = 0 /\ nodes = <<>> /\ strs = {}
    /\ dfree = FALSE /\ buf = FreshBuf /\ oob = FALSE
    /\ perror = YAML_NO_ERROR
    /\ pc = "idle"
    /\ ret = 1 /\ size_read = 0 /\ rc = 0 /\ nmsg = 0 /\ vals = <<>>
    /\ nschema = 0 /\ sealed = FALSE /\ term = <<>> /\ last = "init"
    /\ got = <<>>
    /\ quoted = <<>>
    /\ fmtfail = 0
    /\ EmitterInit
    /\ ypc = "text"
    /\ ytext \in QuoteTexts
    /\ yenv = <<>>

\* lines 1127 and 1135: buf = strndup(buffer, size);
\* yaml_quotation_handling(entry)
QuoteText ==
    /\ ypc = "text"
    /\ quoted' = <<yaml_quotation_handling(StrNDup(ytext))>>
    /\ ypc' = "quoted"
    /\ UNCHANGED <<complete, indent, cur, root, errmsg, pos, nodes, strs,
                   dfree, buf, oob, perror, pc, ret, size_read, rc, nmsg,
                   vals, nschema, sealed, term, last, got, wiring, ktable>>
    /\ UNCHANGED <<ytext, yenv, eerror, eproblem, wret, sent, nsend, calls,
                   nalloc, nfree, mdfree, putfail, wub, decoded, ftype, fmtfail>>

QuoteNext == QuoteText

QuoteSpec == QuoteInit /\ [][QuoteNext]_vars

\* ------------------------------------------------- the emitter's session
invars == <<complete, indent, cur, root, errmsg, pos, nodes, strs, dfree, buf,
            oob, perror, pc, ret, size_read, rc, nmsg, vals, nschema, sealed,
            term, last, got, wiring, ktable, ftype, quoted, fmtfail>>

MaxRoom == 8

T_lnet == <<"l", "n", "e", "t">>

\* lines 1240-1269: what yaml_emitter_set_output_netlink stored
Session == [pid |-> 7, family_id |-> 21, cmd |-> 3, version |-> 1, flags |-> 0]

\* what the library and the kernel do in one write call: how many attribute
\* headers fit into a message, whether nlmsg_alloc and the send succeed, the
\* groups of the family and whether the socket can join one
Envs ==
    [room : 0..MaxRoom, alloc_ok : BOOLEAN, send_ok : BOOLEAN,
     sub_ok : BOOLEAN, groups : {{T_net, T_lnet}}, out : {Session}]

\* a program that writes: the emitter has a text to flush
WriteInit ==
    /\ ReaderInit
    /\ EmitterInit
    /\ ypc = "ready"
    /\ ytext \in Docs
    /\ yenv \in Envs

\* the emitter flushes: one call of yaml_netlink_write_handler.  After a
\* store through an invalid pointer any result may follow.
WriteCall ==
    /\ ypc = "ready"
    /\ \E r \in {yaml_netlink_write_handler(ytext, yenv, eerror, eproblem)} :
       /\ eerror' = r.error
       /\ eproblem' = r.problem
       /\ wret' \in (IF r.ub THEN {0, 1} ELSE {r.ret})
       /\ sent' = r.sent
       /\ nsend' = r.nsend
       /\ calls' = r.calls
       /\ nalloc' = r.nalloc
       /\ nfree' = r.nfree
       /\ mdfree' = r.dfree
       /\ putfail' = r.putfail
       /\ wub' = r.ub
    /\ ypc' = "done"
    /\ UNCHANGED <<invars, ytext, yenv, decoded>>

\* a reader's key table with the shape of the document of scenario S4:
\* the label "net", the container "add", its scalars "nid" and "mtu"
KeysS4 ==
    << KeyRec(<<2>>, <<1>>, <<NLA_NUL_STRING>>, <<T_net>>,
              <<LNKF_MAPPING>>, <<>>),
       KeyRec(<<>>, <<2>>, <<NLA_NESTED>>, <<<<"a", "d", "d">>>>,
              <<LNKF_MAPPING>>,
              << << KeyRec(<<2>>, <<1>>, <<NLA_STRING>>, <<T_nid>>, <<>>, <<>>),
                    KeyRec(<<>>, <<2>>, <<NLA_STRING>>, <<T_mtu>>, <<>>, <<>>)
                 >> >>) >>

\* the value batch a kernel sends under KeysS4 for that document
ValsS4 ==
    [i \in {2} |->
        NestV(<< Elem([j \in {1, 2} |->
                          IF j = 1 THEN StrV(T_tcp1)
                          ELSE StrV(<<"9", "0", "0", "0">>)]) >>)]

\* nla_strdup of a nested attribute: the bytes before the first NUL, which
\* is the low byte of the first inner attribute's nla_len
NestBytes == <<"#">>

\* genlmsg_parse of an outgoing message as a value batch under a key table
\* of fewer slots than LN_SCALAR_ATTR_VALUE: only attribute
\* LN_SCALAR_ATTR_LIST, the last top-level container, is in the table, and
\* slot 1 of the key table reads it as a string
AsBatch(toks) ==
    IF \E j \in 1..Len(toks) : toks[j].k = "open"
    THEN [i \in {LN_SCALAR_ATTR_LIST} |-> StrV(NestBytes)]
    ELSE [i \in {} |-> StrV(<<>>)]

\* the text the reader's callbacks write for a value batch under a key table
Render(keys, batch) ==
    LET s0 == ParseKeys(Data, [list |-> <<keys>>]).st
        s1 == ParseValues(s0, [attrs |-> batch])
    IN  [j \in 1..s1.pos |-> s1.buf[j - 1]]

\* the message that was sent is received by a reader whose key table has
\* the document's shape; the attribute validation of the library either
\* accepts the container in the label's slot or skips the message
Decode ==
    /\ ypc = "done"
    /\ ytext = DocS4
    /\ Len(sent) = 1
    /\ sent[1].kind = "msg"
    /\ \E accepted \in BOOLEAN :
         decoded' = IF accepted THEN Render(KeysS4, AsBatch(sent[1].toks))
                    ELSE <<>>
    /\ ypc' = "decoded"
    /\ UNCHANGED <<invars, ytext, yenv, eerror, eproblem, wret, sent, nsend,
                   calls, nalloc, nfree, mdfree, putfail, wub>>

WriteNext == WriteCall \/ Decode

WriteSpec == WriteInit /\ [][WriteNext]_vars

\* ------------------------------------------------------------- properties
\* the bytes between the buffer's start and data->buffer
Written == [j \in 1..pos |-> IF (j - 1) \in DOMAIN buf THEN buf[j - 1] ELSE FILL]

\* the terminal message the session received reported a kernel error
KernelError == Has(term) /\ ReportsError(Val(term))

\* C1: once a terminal message has set the completion flag, every later
\* call of the read handler returns 1 with *size_read = 0 and never enters
\* the transport's receive.
C1_CompleteReadsNothing ==
    complete =>
        /\ pc = "idle"
        /\ last = "complete" => (ret = 1 /\ size_read = 0)

C1_Witness == complete /\ last = "complete" /\ Has(term)

\* C2 as stated: after the read that failed on a kernel error, every later
\* call of the read handler returns (0, fail).
C2_LaterReadsFail ==
    (KernelError /\ last = "complete") => (ret = 0 /\ size_read = 0)

\* C2 as the code has it: the read that receives the kernel error fails and
\* leaves the parser errored with the error string recorded; every later
\* call returns 1 with *size_read = 0 and never enters the transport, the
\* parser's error state and the recorded string staying as they are.
C2_LaterReadsEndOfStream ==
    KernelError =>
        /\ complete
        /\ pc = "idle"
        /\ perror = YAML_READER_ERROR
        /\ Has(errmsg)
        /\ last = "finish" => ret = 0
        /\ last = "complete" => (ret = 1 /\ size_read = 0)

C2_Witness == KernelError /\ last = "complete"

C4_TransportErrorMarksParser ==
    last = "err" =>
        /\ errmsg = StaticStr(nl_geterror(rc))
        /\ perror # YAML_NO_ERROR
        /\ ret = 0
        /\ size_read = 0

\* C4 as the code has it: the read handler stores the matching error string
\* and returns 0; it writes neither parser->error nor *size_read, which stay
\* as the caller has them.
C4_TransportErrorStored ==
    [][last' = "err" =>
          /\ rc' < 0 /\ rc' # 0 - NLE_INTR
          /\ errmsg' = StaticStr(nl_geterror(rc'))
          /\ ret' = 0
          /\ perror' = perror
          /\ size_read' = size_read]_vars

C4_Witness == last = "err" /\ ret = 0 /\ perror = YAML_NO_ERROR

\* the string C5 expects behind yaml_parser_get_reader_error
C5_Expected(t) ==
    IF t.ack_tlvs /\ Has(t.extack) THEN Val(t.extack)
    ELSE nl_geterror(nl_syserr2nlerr(t.error))

\* C5: a terminal message with a non-zero error code makes the error string
\* the ext-ack text when one comes with it and the system string of the code
\* otherwise; the read fails and yaml_parser_get_reader_error then returns
\* exactly that string.
C5_ReaderErrorText ==
    KernelError =>
        /\ last = "finish" => ret = 0
        /\ Has(got) => Val(got) = C5_Expected(Val(term))

\* C6: on the final message, a normal terminal message or a kernel error,
\* the whole schema tree is freed and the completion flag is set.
C6_FinalMessageFreesTree ==
    (Has(term) /\ nschema <= 1) =>
        /\ complete
        /\ \A n \in DOMAIN nodes : ~nodes[n].live

\* C7: teardown of the tree built from a schema message releases every node
\* and every key's name exactly once and leaves nothing allocated.
C7_TeardownFreesAll ==
    (Has(term) /\ ~ReportsError(Val(term)) /\ nschema = 1) =>
        /\ \A n \in DOMAIN nodes : ~nodes[n].live
        /\ strs = {}
        /\ ~dfree

\* C8: once a value batch has been consumed, a later create message
\* allocates no schema node and changes no key descriptor.
C8_SchemaSealed ==
    [][(sealed /\ last' = "keys") => nodes' = nodes]_vars

\* the key table of scenario S1 is the session's
IsKey(key, name, type, fmt) ==
    /\ Has(key.lkp_values)
    /\ Val(key.lkp_values).text = name
    /\ key.lkp_data_type = type
    /\ key.lkp_key_format = fmt

TableS1 ==
    /\ root # 0
    /\ nodes[root].lkl_maxattr = 3
    /\ IsKey(nodes[root].lkl_list[1], T_net, NLA_NUL_STRING, LNKF_MAPPING)
    /\ IsKey(nodes[root].lkl_list[2], T_mtu, NLA_U32, 0)

TableS2 ==
    /\ root # 0
    /\ nodes[root].lkl_maxattr = 3
    /\ IsKey(nodes[root].lkl_list[1], T_net, NLA_NUL_STRING, LNKF_MAPPING)
    /\ IsKey(nodes[root].lkl_list[2], T_nets, NLA_NESTED,
             LNKF_SEQUENCE + LNKF_MAPPING)

ExpectS1 ==
    << "n", "e", "t", ":", "\n", " ", " ", "m", "t", "u", ":", " ", "9",
      "0", "0", "0", "\n" >>

ExpectS2 ==
    << "n", "e", "t", ":", "\n", " ", " ", "n", "e", "t", "s", ":", "\n",
      " ", " ", " ", " ", "-", " ", "n", "i", "d", ":", " ", "t", "c", "p",
      "1", "\n", " ", " ", " ", " ", " ", " ", "s", "t", "a", "t", "u", "s",
      ":", " ", "u", "p", "\n", " ", " ", " ", " ", " ", " ", "r", "e", "f",
      "c", "o", "u", "n", "t", ":", " ", "3", "\n", " ", " ", " ", " ", "-",
      " ", "n", "i", "d", ":", " ", "t", "c", "p", "2", "\n", " ", " ", " ",
      " ", " ", " ", "s", "t", "a", "t", "u", "s", ":", " ", "d", "o", "w",
      "n", "\n", " ", " ", " ", " ", " ", " ", "r", "e", "f", "c", "o", "u",
      "n", "t", ":", " ", "0", "\n" >>

C10_ScenarioS2 ==
    (pc = "idle" /\ last = "values" /\ TableS2 /\ vals = <<ValsS2>>) =>
        /\ ret = 1
        /\ Written = ExpectS2

TableS3 ==
    /\ root # 0
    /\ nodes[root].lkl_maxattr = 3
    /\ IsKey(nodes[root].lkl_list[1], T_net, NLA_NUL_STRING, LNKF_FLOW)
    /\ IsKey(nodes[root].lkl_list[2], T_nets, NLA_NESTED,
             LNKF_SEQUENCE + LNKF_MAPPING)

ExpectS3 ==
    << "n", "e", "t", ":", " ", "{", " ", "n", "e", "t", "s", ":", " ", "[",
      " ", "n", "i", "d", ":", " ", "t", "c", "p", "1", ",", " ", "s", "t",
      "a", "t", "u", "s", ":", " ", "u", "p", ",", " ", "r", "e", "f", "c",
      "o", "u", "n", "t", ":", " ", "3", " ", "]", " ", "}", "\n" >>

\* C11: scenario S3: under the key table of S2 with the root key's format
\* FLOW, a value batch with the one element {tcp1, up, 3} is written as the
\* single line "net: { nets: [ nid: tcp1, status: up, refcount: 3 ] }\n".
C11_ScenarioS3 ==
    (pc = "idle" /\ last = "values" /\ TableS3 /\ vals = <<ValsS2One>>) =>
        /\ ret = 1
        /\ Written = ExpectS3

\* a write call in which the library and the kernel refused nothing
CleanCall ==
    /\ ypc \in {"done", "decoded"}
    /\ ~wub /\ ~putfail /\ ~mdfree
    /\ yenv.alloc_ok /\ yenv.send_ok /\ yenv.sub_ok

\* the strings of a message in the order they were put
Strings(toks) ==
    LET strs_ == SelectSeq(toks, LAMBDA t : t.k = "str") IN
    [j \in 1..Len(strs_) |-> strs_[j].s]

ExpectS4 ==
    << T_nid, T_tcp1, T_mtu, <<"9", "0", "0", "0">> >>

T_add == <<"a", "d", "d">>

\* C12: scenario S4: for "net:\n  add:\n    nid: tcp1\n    mtu: 9000\n" the
\* write handler resolves group "net" and sends one message whose body is
\* one container for "add" holding the strings "nid", "tcp1", "mtu", "9000"
\* in that order.
C12_ScenarioS4 ==
    (CleanCall /\ ytext = DocS4) =>
        /\ calls = <<T_net>>
        /\ Len(sent) = 1
        /\ sent[1].kind = "msg"
        /\ Head(sent[1].toks) = TokOpen
        /\ sent[1].toks[Len(sent[1].toks)] = TokClose
        /\ SelectSeq(Strings(sent[1].toks),
                     LAMBDA t : t \notin {T_add, T_add \o <<":">>}) = ExpectS4

\* C13: round trip: the message produced from a document, decoded by the
\* reader under a key table with the document's shape, gives the document
\* back.
C13_RoundTrip ==
    (ypc = "decoded" /\ CleanCall /\ Render(KeysS4, ValsS4) = ytext) =>
        decoded = ytext

\* the lines of a text, each without its newline
RECURSIVE Lines(_)
Lines(text) ==
    IF text = <<>> THEN <<>>
    ELSE LET nl == {j \in 1..Len(text) : text[j] = "\n"}
             e == IF nl = {} THEN Len(text) + 1
                  ELSE CHOOSE j \in nl : \A k \in nl : j <= k
         IN  <<SubSeq(text, 1, e - 1)>> \o Lines(SubSeq(text, e + 1, Len(text)))

\* an unindented "key:" line
IsGroupLine(l) ==
    /\ l # <<>>
    /\ l[1] \notin {" ", "-", "."}
    /\ \E j \in 1..Len(l) : l[j] = ":"

GroupLines(text) == SelectSeq(Lines(text), IsGroupLine)

\* C14: a text that names no multicast group: the emitter is marked
\* errored, the write callback returns failure and no message of either kind
\* is sent.
C14_NoGroupFails ==
    (ypc = "done" /\ ~wub /\ GroupLines(ytext) = <<>>) =>
        /\ eerror # YAML_NO_ERROR
        /\ wret = 0
        /\ nsend = 0
        /\ sent = <<>>

\* the last group the write call asked for was refused
GroupRefused ==
    /\ calls # <<>>
    /\ \/ calls[Len(calls)] \notin yenv.groups
       \/ ~yenv.sub_ok

\* C15: a group that cannot be resolved or joined: the emitter is marked
\* with a writer error, the write callback returns failure and nothing is
\* sent.
C15_GroupRefusedFails ==
    (ypc = "done" /\ ~wub /\ GroupRefused) =>
        /\ eerror = YAML_WRITER_ERROR
        /\ eproblem = "Netlink group does not exist"
        /\ wret = 0
        /\ nsend = 0
        /\ sent = <<>>

C15_Witness ==
    /\ ypc = "done"
    /\ ~wub
    /\ ytext = DocUnknown
    /\ yenv.sub_ok
    /\ calls = << <<"b", "a", "d">> >>
    /\ wret = 0

\* C16: a write call in which a group was resolved and nothing failed does
\* exactly one send: the accumulated message if the body produced an
\* attribute, a command-only message otherwise; the message is allocated at
\* most once and carries the session's pid, family id, command, version and
\* flags.
C16_OneSend ==
    (/\ ypc = "done" /\ ~wub /\ ~putfail
     /\ calls # <<>> /\ ~GroupRefused
     /\ eerror = YAML_NO_ERROR) =>
        /\ wret = 1
        /\ nsend = 1
        /\ Len(sent) = 1
        /\ nalloc <= 1
        /\ (sent[1].kind = "msg") = (nalloc = 1)
        /\ sent[1].kind = "msg" =>
              \E t \in 1..Len(sent[1].toks) : sent[1].toks[t].k # "close"
        /\ sent[1].kind # "msg" =>
              sent[1].kind = "simple" /\ sent[1].toks = <<>>
        /\ sent[1].stamp = Session

C16_Witness ==
    /\ ypc = "done"
    /\ ytext = DocS4
    /\ eerror = YAML_NO_ERROR
    /\ ~putfail
    /\ nsend = 1
    /\ Len(sent) = 1
    /\ sent[1].kind = "msg"
    /\ nalloc = 1

\* a line without its leading blanks and sequence dashes
RECURSIVE Strip(_)
Strip(l) ==
    IF l # <<>> /\ l[1] \in {" ", "-"} THEN Strip(Tail(l)) ELSE l

\* a body line in block style: not a group line, not a document marker, no
\* flow brackets and no quotation marks
IsPlainBodyLine(l) ==
    /\ l # <<>>
    /\ l \notin {<<"-", "-", "-">>, <<".", ".", ".">>}
    /\ ~IsGroupLine(l)
    /\ \A j \in 1..Len(l) : l[j] \notin {"{", "[", "}", "]", "\"", "'"}

PlainBodyLines(text) ==
    LET ls == SelectSeq(Lines(text), IsPlainBodyLine) IN
    [j \in 1..Len(ls) |-> Strip(ls[j])]

\* C17: the strings of an outgoing message, in the order they were put,
\* are the body lines of the text in the text's order, none dropped,
\* duplicated or reordered; stated for the block-style lines, each of which
\* is one string.
C17_LinesInOrder ==
    (CleanCall /\ eerror = YAML_NO_ERROR /\ Len(sent) = 1
        /\ sent[1].kind = "msg") =>
        LET plain == PlainBodyLines(ytext)
            mine == {plain[j] : j \in 1..Len(plain)}
        IN  SelectSeq(Strings(sent[1].toks), LAMBDA t : t \in mine) = plain

\* the line a root label makes: its text and a colon
RootLabelLine ==
    Val(nodes[root].lkl_list[1].lkp_values).text \o <<":">>

\* a read that delivered value batches only, none of which replaces the
\* root label
ValuesOnlyRead ==
    /\ pc = "idle"
    /\ last = "values"
    /\ root # 0
    /\ cur = root
    /\ Has(nodes[root].lkl_list[1].lkp_values)
    /\ vals # <<>>
    /\ \A j \in 1..Len(vals) : 1 \notin DOMAIN vals[j]

\* C18: however many value batches a session delivers, the root label is
\* written once: the text of one read never holds the line "<label>:" twice.
C18_RootLabelOnce ==
    ValuesOnlyRead =>
        Len(SelectSeq(Lines(Written), LAMBDA l : l = RootLabelLine)) <= 1

\* C19: a value batch without attributes under a cached key table writes
\* nothing, and the reader reports 0 bytes.
C19_EmptyBatchSilent ==
    (ValuesOnlyRead /\ vals = <<ValsEmpty>>) =>
        /\ Written = <<>>
        /\ size_read = 0

\* C20: a fragment that does not fit into what is left of the reader's
\* buffer is not written in part: value intake rewinds to the end of the
\* last whole line, so a read of value batches stores nothing outside the
\* buffer, reports no more bytes than the buffer holds and ends its text
\* with a whole line.
C20_NoPartialLine ==
    (pc = "idle" /\ last = "values" /\ ret = 1 /\ vals # <<>>) =>
        /\ ~oob
        /\ size_read <= BufSize
        /\ Written # <<>> => Written[Len(Written)] = "\n"

\* the library's outcomes in the set-up call that was made
WiringEnv == wiring.env[1]

RegisterFails ==
    WiringEnv.connect < 0 \/ WiringEnv.bcast < 0 \/ WiringEnv.ext_ack < 0

\* the diagnostic of the first step that failed
WiringDiagnostic ==
    IF RegisterFails THEN "netlink setup failed"
    ELSE IF WiringEnv.valid < 0 THEN "netlink msg recv setup failed"
    ELSE "netlink msg cleanup setup failed"

\* C21: a set-up call in which the transport registration or the
\* installation of either callback fails returns false, leaves the parser
\* in reader-error state with the diagnostic of that step and frees the
\* session; when the allocation fails it returns false with the parser in
\* memory-error state.
C21_WiringFailure ==
    (pc # "new" /\ wiring.env # <<>>) =>
        IF ~WiringEnv.calloc_ok
        THEN /\ ~wiring.ret
             /\ pc = "failed"
             /\ perror = YAML_MEMORY_ERROR
             /\ wiring.buf = "none"
        ELSE IF RegisterFails \/ WiringEnv.valid < 0 \/ WiringEnv.finish < 0
        THEN /\ ~wiring.ret
             /\ pc = "failed"
             /\ perror = YAML_READER_ERROR
             /\ wiring.problem = WiringDiagnostic
             /\ wiring.buf = "freed"
        ELSE wiring.ret /\ wiring.buf = "live"

C21_Witness ==
    /\ pc = "failed"
    /\ WiringEnv.calloc_ok
    /\ ~RegisterFails
    /\ WiringEnv.valid = 0
    /\ WiringEnv.finish < 0
    /\ wiring.problem = "netlink msg cleanup setup failed"
    /\ wiring.buf = "freed"

\* the slots of a schema node that hold a nested-typed key, in index order
NestedSlots(n) ==
    {i \in 1..(nodes[n].lkl_maxattr - 1) :
        nodes[n].lkl_list[i].lkp_data_type = NLA_NESTED}

\* C22: after the intake of a schema message every nested-typed key has
\* exactly one child node in the children list of its level.
C22_ChildPerNestedKey ==
    (pc = "parsed" /\ ~oob) =>
        \A n \in 1..Len(nodes) :
            Len(nodes[n].children) = Cardinality(NestedSlots(n))

\* C23: slot 0 of every schema node stays as calloc left it: a record with
\* index 0 or without an index stops the intake and stores nothing, for
\* nodes of two slots as for larger ones, and the teardown leaves the slot
\* alone.
C23_SentinelSlot ==
    (pc \in {"parsed", "finished"} /\ ~oob) =>
        /\ \A n \in 1..Len(nodes) : nodes[n].lkl_list[0] = ZeroKey
        /\ (pc = "parsed"
            /\ (~Has(ktable[1][2].index) \/ Val(ktable[1][2].index) = 0)
            /\ ~(Has(ktable[1][1].list)
                 /\ ~Has(Val(ktable[1][1].list)[1].list_size)))
           => /\ rc = NL_STOP
              /\ root # 0
              /\ \A i \in 2..(nodes[root].lkl_maxattr - 1) :
                    nodes[root].lkl_list[i] = ZeroKey

C23_Witness ==
    /\ pc = "finished"
    /\ Has(ktable[1][2].index)
    /\ Val(ktable[1][2].index) = 0
    /\ nodes[root].lkl_maxattr = 2
    /\ nodes[root].lkl_list[0] = ZeroKey
    /\ Has(nodes[root].lkl_list[1].lkp_values)

\* the column at which the content of a line starts, behind its blanks and
\* its sequence dash
RECURSIVE Column(_)
Column(l) ==
    IF l # <<>> /\ l[1] \in {" ", "-"} THEN 1 + Column(Tail(l)) ELSE 0

Columns(text) ==
    LET ls == Lines(text) IN
    [j \in 1..Len(ls) |-> Column(ls[j])]

\* the three-level key table is the session's
TableDeep ==
    /\ root # 0
    /\ nodes[root].lkl_maxattr = 4
    /\ IsKey(nodes[root].lkl_list[2], T_nets, NLA_NESTED, LNKF_MAPPING)
    /\ IsKey(nodes[root].lkl_list[3], T_lo, NLA_NESTED,
             LNKF_FLOW + LNKF_SEQUENCE)

\* C24: the indent counter follows the block containers that are open.
\* Under the three-level table the lines of the mapping element "nets" start
\* two columns behind its header, the flow containers "status" and "lo"
\* shift nothing, and "lo" is back at the header's column; under the table
\* of S2 the lines of a sequence-of-mappings element start four columns
\* behind its header.  After the batch the counter has its root-level value.
C24_IndentFollowsDepth ==
    /\ (pc = "idle" /\ last = "values" /\ TableDeep /\ vals = <<ValsDeep>>)
         => /\ Columns(Written) = <<0, 2, 4, 4, 2>>
            /\ indent = 2
    /\ (pc = "idle" /\ last = "values" /\ TableS2 /\ vals = <<ValsS2One>>)
         => /\ Columns(Written) = <<0, 2, 6, 6, 6>>
            /\ indent = 2

C24_Witness ==
    /\ pc = "idle"
    /\ last = "values"
    /\ TableDeep
    /\ vals = <<ValsDeep>>
    /\ Columns(Written) = <<0, 2, 4, 4, 2>>

\* the lines of a text that slot i of the root makes: "<name>: <value>"
SlotLines(text, i) ==
    LET p == KeyName(nodes[root].lkl_list[i]) \o <<":", " ">> IN
    SelectSeq(Lines(text),
              LAMBDA l : /\ Len(Strip(l)) >= Len(p)
                         /\ SubSeq(Strip(l), 1, Len(p)) = p)

\* a slot of the root whose value is formatted: neither label nor nested
ScalarSlot(i) ==
    nodes[root].lkl_list[i].lkp_data_type \notin {0, NLA_NUL_STRING, NLA_NESTED}

\* C25: a scalar slot of the root whose attribute the value batch does not
\* carry makes a line when its key has a non-empty values string, and makes
\* nothing when it has none.
C25_AbsentScalarDefault ==
    (ValuesOnlyRead /\ Len(vals) = 1) =>
        \A i \in 2..(nodes[root].lkl_maxattr - 1) :
            (ScalarSlot(i) /\ i \notin DOMAIN vals[1]) =>
                IF /\ Has(nodes[root].lkl_list[i].lkp_values)
                   /\ KeyName(nodes[root].lkl_list[i]) # <<>>
                THEN SlotLines(Written, i) # <<>>
                ELSE SlotLines(Written, i) = <<>>

\* the line, the base and the previous format of the call that was made
Call == Val(ftype)

Typed == ypc = "typed" /\ Has(Call.res)

Result == Val(Call.res)

\* the blanks in front of a line's content
RECURSIVE Blanks(_)
Blanks(l) == IF l # <<>> /\ l[1] = " " THEN 1 + Blanks(Tail(l)) ELSE 0

Brace == \E j \in 1..Len(Call.text) : Call.text[j] \in {"{", "["}

Dash ==
    LET c == SubSeq(Call.text, Blanks(Call.text) + 1, Len(Call.text)) IN
    Len(c) >= 2 /\ c[1] = "-" /\ c[2] = " "

\* C26 as stated: FLOW for a line with a brace or bracket; SEQUENCE for
\* content that starts with "- ", the base going two columns behind the
\* dash; END for an indentation below the base; MAPPING for every
\* indentation above the base; a plain scalar otherwise.
C26_FormatTypeAsStated ==
    Typed =>
        /\ Brace => Result.fmt = LNKF_FLOW
        /\ (~Brace /\ Dash /\ Blanks(Call.text) >= Call.offset)
             => /\ Result.fmt = LNKF_SEQUENCE
                /\ Result.offset = Blanks(Call.text) + best_indent
        /\ (~Brace /\ ~Dash /\ Blanks(Call.text) < Call.offset)
             => Result.fmt = LNKF_END
        /\ (~Brace /\ ~Dash /\ Blanks(Call.text) > Call.offset)
             => Result.fmt = LNKF_MAPPING
        /\ (~Brace /\ ~Dash /\ Blanks(Call.text) = Call.offset)
             => Result = [fmt |-> 0, offset |-> Call.offset]

\* C26, amended: the tests are made in the order FLOW, END, SEQUENCE,
\* MAPPING.  A line with a brace or bracket is FLOW and leaves the base; a
\* line indented below the base is END, "- " or not, and lowers the base by
\* best_indent; otherwise content that starts with "- " is SEQUENCE and sets
\* the base two columns behind the dash; otherwise a line indented above the
\* base moves the base to its indentation and is MAPPING only when the
\* previous format was not MAPPING, a plain scalar when it was; a line at
\* the base is a plain scalar.
C26_FormatType ==
    Typed =>
        /\ Brace => Result = [fmt |-> LNKF_FLOW, offset |-> Call.offset]
        /\ (~Brace /\ Blanks(Call.text) < Call.offset)
             => Result = [fmt |-> LNKF_END,
                          offset |-> Call.offset - best_indent]
        /\ (~Brace /\ Dash /\ Blanks(Call.text) >= Call.offset)
             => Result = [fmt |-> LNKF_SEQUENCE,
                          offset |-> Blanks(Call.text) + best_indent]
        /\ (~Brace /\ ~Dash /\ Blanks(Call.text) > Call.offset)
             => Result = [fmt |-> IF Call.prev = LNKF_MAPPING THEN 0
                                  ELSE LNKF_MAPPING,
                          offset |-> Blanks(Call.text)]
        /\ (~Brace /\ ~Dash /\ Blanks(Call.text) = Call.offset)
             => Result = [fmt |-> 0, offset |-> Call.offset]

\* a line indented above the base right after a mapping was opened
C26_Witness ==
    /\ Typed
    /\ ~Brace
    /\ ~Dash
    /\ Blanks(Call.text) > Call.offset
    /\ Call.prev = LNKF_MAPPING
    /\ Result = [fmt |-> 0, offset |-> Blanks(Call.text)]

QuoteMarks == {"\"", "'"}

\* the quoted segments of a text from position p on, each as the positions
\* of its two quotation marks; 0 stands for a closing mark that is missing
RECURSIVE Segments(_, _)
Segments(t, p) ==
    LET qs == {j \in p..Len(t) : t[j] \in QuoteMarks} IN
    IF qs = {} THEN {}
    ELSE LET i == CHOOSE j \in qs : \A k \in qs : j <= k
             cl == {j \in (i + 1)..Len(t) : t[j] = t[i]}
         IN  IF cl = {} THEN {<<i, 0>>}
             ELSE LET j == CHOOSE c \in cl : \A k \in cl : c <= k
                  IN  {<<i, j>>} \cup Segments(t, j + 1)

\* every segment is closed and holds no quotation mark of the other kind
Balanced(t) ==
    \A sg \in Segments(t, 1) :
        /\ sg[2] # 0
        /\ \A k \in (sg[1] + 1)..(sg[2] - 1) : t[k] \notin QuoteMarks

\* C27: after the preprocessing of a text with balanced quotes no quotation
\* mark is left, each segment has a "%" where its marks were, and the
\* characters between the marks are the ones the text had there.
C27_QuotedContentIntact ==
    (ypc = "quoted" /\ Has(quoted) /\ Balanced(ytext)) =>
        LET r == Val(quoted) IN
        /\ ~r.ub
        /\ \A k \in 1..Len(ytext) : r.buf[k] \notin QuoteMarks
        /\ \A sg \in Segments(ytext, 1) :
              /\ r.buf[sg[1]] = "%"
              /\ r.buf[sg[2]] = "%"
              /\ \A k \in (sg[1] + 1)..(sg[2] - 1) : r.buf[k] = ytext[k]

\* the lines of the two flow containers of the three-level table, each
\* with one entry
FlowLineStatus ==
    <<" ", " ", " ", " ", "s", "t", "a", "t", "u", "s", ":", " ", "{", " ", "7", " ", "}">>

FlowLineLo ==
    <<" ", " ", "l", "o", ":", " ", "[", " ", "u", "p", " ", "]">>

\* C28: a flow container with one entry is written as "k: { v }" and a
\* newline, "k: [ v ]" for a sequence: the separator behind the entry is
\* gone, no comma is left in the text and the text ends with the newline.
C28_FlowSingleEntry ==
    (pc = "idle" /\ last = "values" /\ TableDeep /\ vals = <<ValsDeep>>) =>
        /\ Len(Lines(Written)) = 5
        /\ Lines(Written)[4] = FlowLineStatus
        /\ Lines(Written)[5] = FlowLineLo
        /\ \A j \in 1..Len(Written) : Written[j] # ","
        /\ Written[Len(Written)] = "\n"

C28_Witness ==
    /\ pc = "idle"
    /\ last = "values"
    /\ TableDeep
    /\ vals = <<ValsDeep>>
    /\ Lines(Written)[5] = FlowLineLo
    /\ size_read = Len(Written)

\* the keys of the unindented "key:" lines of a text, in the text's order
GroupNames(text) ==
    LET gl == GroupLines(text) IN
    [j \in 1..Len(gl) |->
        SubSeq(gl[j], 1,
               (CHOOSE c \in 1..Len(gl[j]) :
                   /\ gl[j][c] = ":"
                   /\ \A d \in 1..(c - 1) : gl[j][d] # ":") - 1)]

IsPrefix(a, b) == Len(a) <= Len(b) /\ a = SubSeq(b, 1, Len(a))

ValuesStep == Len(vals') = Len(vals) + 1

Batch == vals'[Len(vals')]

\* a schema tree without the names of its keys
Shape(ns) ==
    [id \in DOMAIN ns |->
        [lkl_maxattr |-> ns[id].lkl_maxattr,
         children |-> ns[id].children,
         live |-> ns[id].live,
         keys |-> [i \in DOMAIN ns[id].lkl_list |->
                     <<ns[id].lkl_list[i].lkp_data_type,
                       ns[id].lkl_list[i].lkp_key_format,
                       Has(ns[id].lkl_list[i].lkp_values)>>]]]

RootIndent ==
    IF HasBit(nodes[root].lkl_list[1].lkp_key_format, LNKF_FLOW) THEN 0
    ELSE IF HasBit(nodes[root].lkl_list[1].lkp_key_format, LNKF_SEQUENCE)
            \/ HasBit(nodes[root].lkl_list[1].lkp_key_format, LNKF_MAPPING)
    THEN 2 ELSE 0

\* C31: after a value batch has been processed, whether or not an element
\* was refused by the nested policy or a formatting call failed, the cursor
\* is the root node and the indent counter has its root-level value.
C31_CursorBackAtRoot ==
    (last = "values" /\ root # 0 /\ nodes[root].live) =>
        /\ cur = root
        /\ indent = RootIndent

\* C32: whatever value batches one read dispatches, value intake stores no
\* byte outside the buffer of the read, the write pointer stays between the
\* buffer's start and its end, and the read reports no more bytes than were
\* asked for.
C32_WritesInsideBuffer ==
    (last = "values" /\ vals # <<>>) =>
        /\ ~oob
        /\ pos >= 0
        /\ pos <= BufSize
        /\ size_read <= BufSize

\* C33: the intake of a key table stores a key descriptor only in the slots
\* 1 .. lkl_maxattr - 1 of the level's node: no record makes it store
\* behind the node's last slot.
C33_StoresWithinNode ==
    (pc = "parsed" /\ last = "keys") => ~oob

\* does text hold the characters of sub in a row
Contains(text, sub) ==
    \E j \in 0..(Len(text) - Len(sub)) :
        SubSeq(text, j + 1, j + Len(sub)) = sub

\* the child that belongs to nested slot i of the root: the k-th of the
\* children list when i is the k-th nested-typed slot in index order
ChildOf(i) ==
    nodes[root].children[Cardinality({j \in NestedSlots(root) : j <= i})]

\* C34: value intake reads the element of the k-th nested-typed slot with
\* the keys of the k-th child node, whichever nested attributes the batch
\* carries and whether or not the nested keys have names: the value of the
\* element appears under the name of that child's key.
C34_NestedPairsWithChild ==
    (pc = "valued" /\ ~oob) =>
        \A i \in DOMAIN vals[1] :
            1 \in DOMAIN vals[1][i].e[1].attrs =>
                Contains(Written,
                         KeyName(nodes[ChildOf(i)].lkl_list[1])
                         \o <<":", " ">>
                         \o Dec(vals[1][i].e[1].attrs[1].n))

\* C35: a value batch or a terminal message that arrives before any key
\* table never makes the reader read through the schema node it does not
\* have.
C35_NoReadThroughMissingNode ==
    pc # "fault"

\* C36: the element of a flow container that carries no attribute is
\* written with the container's name, its opening bracket and the closing
\* bracket.
C36_EmptyFlowKeepsBrackets ==
    (pc = "valued" /\ ~oob) =>
        \A i \in DOMAIN vals[1] :
            (/\ HasBit(nodes[root].lkl_list[i].lkp_key_format, LNKF_FLOW)
             /\ DOMAIN vals[1][i].e[1].attrs = {})
               => /\ Contains(Written,
                              KeyName(nodes[root].lkl_list[i])
                              \o <<":", " ", "{">>)
                  /\ Contains(Written, <<"}", "\n">>)

\* C37: when the write callback returns, a message it allocated has been
\* released once: not kept and not released twice.
C37_MessageFreedOnce ==
    (ypc = "done" /\ ~wub) =>
        /\ nfree = nalloc
        /\ ~mdfree

\* C38: the write callback returns success only after one send that
\* succeeded, and a failed append of an attribute leaves the emitter errored
\* and the callback failed.
C38_SuccessMeansSent ==
    (ypc = "done" /\ ~wub) =>
        /\ wret = 1 => (nsend = 1 /\ yenv.send_ok)
        /\ putfail => (wret = 0 /\ eerror # YAML_NO_ERROR)

\* the containers still open after each attribute of a message, the last
\* one opened closed first
RECURSIVE OpenDepth(_, _)
OpenDepth(toks, n) ==
    IF n = 0 THEN 0
    ELSE OpenDepth(toks, n - 1)
         + (IF toks[n].k = "open" THEN 1
            ELSE IF toks[n].k = "close" THEN 0 - 1 ELSE 0)

\* C39: in a message that was sent every container that was opened is
\* closed, and no container is closed that is not the innermost open one.
C39_SentContainersClosed ==
    \A m \in 1..Len(sent) :
        sent[m].kind = "msg" =>
            /\ OpenDepth(sent[m].toks, Len(sent[m].toks)) = 0
            /\ \A n \in 1..Len(sent[m].toks) : OpenDepth(sent[m].toks, n) >= 0

\* C40: after a set-up call that returned false the parser does not point
\* at the freed session, and the diagnostic asked for afterwards is the
\* set-up's problem text or NULL, never something read from freed memory.
C40_NoReferenceToFreedSession ==
    /\ pc \in {"failed", "asked"} =>
          ~(wiring.buf = "freed" /\ wiring.read_handler_data)
    /\ pc = "asked" =>
          got \in {<<"NULL">>, <<wiring.problem>>,
                   <<"Memory error: Not enough memory for parser">>}

====
